---- MODULE Spec2Model ----
(***************************************************************************)
(* The zombie deletion engine of the Ceph RBD storage helpers              *)
(* (cephContainerDelete / cephContainerSnapshotDelete), the rbd wrappers   *)
(* it calls and the identifier parsers parseParent / parseClone.           *)
(*                                                                         *)
(* Identifiers are sequences of one-character strings, so that the         *)
(* parsers and fmt.Sprintf are modelled by what they do to the text.       *)
(* Positions follow Go: 0-based, s[i:j] is Sl(s, i, j).                    *)
(***************************************************************************)
EXTENDS Integers, Sequences, FiniteSets, TLC

\* ------------------------------------------------------------- bounds
MaxVols == 3
MaxSnaps == 2
MaxFaults == 1
MaxMapped == 1
MaxCalls == 4
MaxWrapCalls == 2
MaxUnmaps == 3
MaxConcCalls == 2

\* ------------------------------------------------------------- strings
ZombiePrefix == <<"z", "o", "m", "b", "i", "e", "_">>

Sl(s, i, j) == SubSeq(s, i + 1, j)

Index(s, sub) ==
  LET hits == {i \in 0..(Len(s) - Len(sub)) : Sl(s, i, i + Len(sub)) = sub}
  IN IF hits = {} THEN -1 ELSE CHOOSE i \in hits : \A j \in hits : i =< j

HasPrefix(s, pre) == Len(s) >= Len(pre) /\ Sl(s, 0, Len(pre)) = pre

\* fmt.Sprintf("%s_%s", volumeType, volumeName)
ImageName(volumeType, volumeName) == volumeType \o <<"_">> \o volumeName

\* fmt.Sprintf("%s/%s", pool, image): one line of `rbd children`
CloneString(pool, image) == pool \o <<"/">> \o image

\* <pool>/<image>@<snapshot>: the "parent: " line of `rbd info`
ParentString(pool, image, snapshotName) ==
  pool \o <<"/">> \o image \o <<"@">> \o snapshotName

ParseError == [err |-> "error", pool |-> <<>>, type |-> <<>>, name |-> <<>>, snap |-> <<>>]
ParsePanic == [err |-> "panic", pool |-> <<>>, type |-> <<>>, name |-> <<>>, snap |-> <<>>]

\* The common head of parseParent and parseClone: pool, type tag and the
\* text after the type tag's "_".  A slice bound past the end of the string
\* is a run-time panic in Go.
ParseHead(str) ==
  LET idx0 == Index(str, <<"/">>)
  IN IF idx0 = -1 THEN ParseError
     ELSE
       LET slider0 == Sl(str, idx0 + 1, Len(str))
           poolName == Sl(str, 0, idx0)
           idxZ == Index(slider0, ZombiePrefix)
           idx == IF idxZ = 0 THEN Len(ZombiePrefix) ELSE idxZ
           slider == IF idxZ = 0 THEN Sl(slider0, idx, Len(slider0)) ELSE slider0
           idxType0 == Index(slider, <<"_">>)
           idxType == IF idx = Len(ZombiePrefix) THEN idxType0 + idx ELSE idxType0
       IN IF idxType0 = -1 THEN ParseError
          ELSE IF idxType > Len(slider0) THEN ParsePanic
          ELSE [err |-> "ok", pool |-> poolName,
                type |-> Sl(slider0, 0, idxType),
                name |-> Sl(slider, idxType0 + 1, Len(slider)),
                snap |-> <<>>]

parseClone(clone) == ParseHead(clone)

parseParent(parent) ==
  LET h == ParseHead(parent)
  IN IF h.err # "ok" THEN h
     ELSE LET idx == Index(h.name, <<"@">>)
          IN IF idx = -1 THEN ParseError
             ELSE [h EXCEPT !.name = Sl(h.name, 0, idx),
                            !.snap = Sl(h.name, idx + 1, Len(h.name))]

\* An identifier without its i-th character.
DropChar(str, i) == SubSeq(str, 1, i - 1) \o SubSeq(str, i + 1, Len(str))

AfterSep(str, sep) == Sl(str, Index(str, sep) + 1, Len(str))

StripZombie(n) == IF HasPrefix(n, ZombiePrefix) THEN Sl(n, Len(ZombiePrefix), Len(n)) ELSE n

\* The text in which the grammar looks for the "_" after the type tag:
\* what follows the "/", without a leading zombie prefix.
AfterType(str) == StripZombie(AfterSep(str, <<"/">>))

\* A delimiter the grammar requires is missing: the "/", the "_" after
\* the type tag or, for a snapshot, the "@" after the volume name.
DelimiterMissing(kind, str) ==
  \/ Index(str, <<"/">>) = -1
  \/ Index(AfterType(str), <<"_">>) = -1
  \/ kind = "parent" /\ Index(AfterSep(AfterType(str), <<"_">>), <<"@">>) = -1

\* What a backend that breaks the format may return instead of an
\* identifier: the identifier without one character, a required delimiter
\* missing.
Malformed(kind, str) ==
  {m \in {DropChar(str, i) : i \in 1..Len(str)} : DelimiterMissing(kind, m)}

\* No identifier handed to a parser, no parser run.
NoIdent == [kind |-> "none", str |-> <<>>]
NotParsed == [err |-> "pending", pool |-> <<>>, type |-> <<>>, name |-> <<>>, snap |-> <<>>]

\* No wrapper called.  fn: the wrapper; tgt: the entity it names; until:
\* unmapUntilEINVAL; running: inside the wrapper, between two rbd commands;
\* issued: rbd commands run by this call; exit: exit status of the last
\* one; err: the error returned; fault: a command of this call failed of
\* its own; prot0: whether the snapshot was protected when the call began;
\* prev: fn, tgt, err and fault of the call before.
NoPrev == [fn |-> "none", tgt |-> <<>>, err |-> "nil", fault |-> FALSE]
NoWrap ==
  [fn |-> "none", tgt |-> <<>>, until |-> FALSE, running |-> FALSE, issued |-> 0,
   exit |-> 0, err |-> "nil", fault |-> FALSE, prot0 |-> FALSE, prev |-> NoPrev]

\* ------------------------------------------------------------- universe
Vols == 1..MaxVols
Snaps == 1..MaxSnaps
Procs == {1, 2}

Letters == <<"a", "b", "d", "e", "f", "g", "h", "k">>
SnapLetters == <<"s", "t", "u", "v", "w", "x", "y", "r">>
PoolP == <<"p">>
PoolQ == <<"q">>
TypeTag == <<"c">>

VolName(v) == <<Letters[v]>>
SnapName(s) == <<SnapLetters[s]>>

NoVol == [ex |-> FALSE, pool |-> <<>>, img |-> <<>>, mapped |-> 0, parent |-> 0]
NoSnap == [ex |-> FALSE, owner |-> 0, name |-> <<>>, prot |-> FALSE, mapped |-> 0]

\* No call run a first time for comparison.  done: a top-level call has
\* been run, its outcome kept and the backend put back as it was before
\* it; res, B: what that run returned and the backend it left; faults:
\* the command failures up to its end; at: the number of the call that
\* runs from the restored backend; retry: the number of the call that
\* runs once more after that one has failed (0: none).
NoFirst ==
  [done |-> FALSE, res |-> 0, faults |-> 0, at |-> 0, retry |-> 0,
   B |-> [vol |-> [v \in Vols |-> NoVol], snap |-> [s \in Snaps |-> NoSnap]]]

\* The engine's state; first for a call that is run twice from the same
\* backend; overlap: a top-level call has begun while another process was
\* inside one; (ident, parsed) for the identifier parsers run on
\* their own: the string handed to parseClone / parseParent and what came
\* back; wrap for an rbd wrapper called on its own: the call that runs or
\* has returned, and the one before it.
VARIABLES vol, snap, stack, result, call, pre, lastOp, gone, faults, failed, calls,
          ident, parsed, wrap, first, overlap

vars == <<vol, snap, stack, result, call, pre, lastOp, gone, faults, failed, calls,
          ident, parsed, wrap, first, overlap>>

\* ------------------------------------------------------------- backend
\* The state of the cluster as the rbd tool reports it.  An image keeps its
\* parent link and its snapshots across a rename; names are looked up at
\* every command.
Backend == [vol |-> vol, snap |-> snap]

FindVol(B, pool, img) ==
  LET m == {v \in Vols : B.vol[v].ex /\ B.vol[v].pool = pool /\ B.vol[v].img = img}
  IN IF m = {} THEN 0 ELSE CHOOSE v \in m : TRUE

FindSnap(B, pool, img, sn) ==
  LET v == FindVol(B, pool, img)
      m == {s \in Snaps : B.snap[s].ex /\ B.snap[s].owner = v /\ B.snap[s].name = sn}
  IN IF v = 0 \/ m = {} THEN 0 ELSE CHOOSE s \in m : TRUE

SnapsOf(B, v) == {s \in Snaps : B.snap[s].ex /\ B.snap[s].owner = v}
ClonesOf(B, s) == {v \in Vols : B.vol[v].ex /\ B.vol[v].parent = s}

IsZombieVol(B, v) == HasPrefix(B.vol[v].img, ZombiePrefix)
IsZombieSnap(B, s) == HasPrefix(B.snap[s].name, ZombiePrefix)

\* Every wrapper returns the Go error of the call ("nil", "NoSuchObject" for
\* db.NoSuchObjectError, "error" for any other error), its payload and the
\* backend after the command.  fail: the command exits with an error of
\* its own (cluster unreachable, ...), whatever the state.
\* exit is the exit status of the rbd command where the wrapper looks at it
\* (0: success, 1: an error the wrapper does not single out).
Reply(err, B) ==
  [err |-> err, B |-> B, set |-> {}, str |-> <<>>, list |-> <<>>, again |-> FALSE,
   exit |-> 0]

\* rbd snap ls: an error for a missing image, NoSuchObjectError for an
\* empty list.
cephRBDVolumeListSnapshots(B, pool, volumeName, volumeType, fail) ==
  LET v == FindVol(B, pool, ImageName(volumeType, volumeName))
  IN IF fail \/ v = 0 THEN Reply("error", B)
     ELSE IF SnapsOf(B, v) = {} THEN Reply("NoSuchObject", B)
     ELSE [Reply("nil", B) EXCEPT !.set = {B.snap[s].name : s \in SnapsOf(B, v)}]

\* rbd children: the clones as <pool>/<image>, in whatever pool they live.
cephRBDSnapshotListClones(B, pool, volumeName, volumeType, snapshotName, fail) ==
  LET s == FindSnap(B, pool, ImageName(volumeType, volumeName), snapshotName)
  IN IF fail \/ s = 0 THEN Reply("error", B)
     ELSE IF ClonesOf(B, s) = {} THEN Reply("NoSuchObject", B)
     ELSE [Reply("nil", B) EXCEPT
             !.set = {CloneString(B.vol[c].pool, B.vol[c].img) : c \in ClonesOf(B, s)}]

\* rbd info: the "parent: " line, absent for an image that is no clone.
cephRBDVolumeGetParent(B, pool, volumeName, volumeType, fail) ==
  LET v == FindVol(B, pool, ImageName(volumeType, volumeName))
  IN IF fail \/ v = 0 THEN Reply("error", B)
     ELSE IF B.vol[v].parent = 0 THEN Reply("NoSuchObject", B)
     ELSE LET ps == B.vol[v].parent
              pv == B.snap[ps].owner
          IN [Reply("nil", B) EXCEPT
                !.str = ParentString(B.vol[pv].pool, B.vol[pv].img, B.snap[ps].name)]

\* A faulty loop test: one successful unmap is enough.
UnmapNeverAgain(unmapUntilEINVAL) == FALSE

\* if unmapUntilEINVAL { goto again }
UnmapAgain(unmapUntilEINVAL) == unmapUntilEINVAL

\* if waitStatus.ExitStatus() == 22 { return nil }
UnmapError(exit) == IF exit = 0 \/ exit = 22 THEN "nil" ELSE "error"

\* rbd unmap, once: exit status 22 (nothing mapped under that name) is
\* success; after a successful unmap the wrapper goes round again when
\* unmapUntilEINVAL is set.
cephRBDVolumeUnmap(B, pool, volumeName, volumeType, unmapUntilEINVAL, fail) ==
  LET v == FindVol(B, pool, ImageName(volumeType, volumeName))
  IN IF fail THEN [Reply("error", B) EXCEPT !.exit = 1]
     ELSE IF v = 0 \/ B.vol[v].mapped = 0 THEN [Reply("nil", B) EXCEPT !.exit = 22]
     ELSE [Reply("nil", [B EXCEPT !.vol[v].mapped = @ - 1])
             EXCEPT !.again = UnmapAgain(unmapUntilEINVAL)]

cephRBDVolumeSnapshotUnmap(B, pool, volumeName, volumeType, snapshotName, unmapUntilEINVAL, fail) ==
  LET s == FindSnap(B, pool, ImageName(volumeType, volumeName), snapshotName)
  IN IF fail THEN [Reply("error", B) EXCEPT !.exit = 1]
     ELSE IF s = 0 \/ B.snap[s].mapped = 0 THEN [Reply("nil", B) EXCEPT !.exit = 22]
     ELSE [Reply("nil", [B EXCEPT !.snap[s].mapped = @ - 1])
             EXCEPT !.again = UnmapAgain(unmapUntilEINVAL)]

\* rbd map: one more mapping of the image on this host.
cephRBDVolumeMap(B, pool, volumeName, volumeType, fail) ==
  LET v == FindVol(B, pool, ImageName(volumeType, volumeName))
  IN IF fail \/ v = 0 THEN [Reply("error", B) EXCEPT !.exit = 1]
     ELSE Reply("nil", [B EXCEPT !.vol[v].mapped = @ + 1])

\* if waitStatus.ExitStatus() == 16 { return nil }
ProtectError(exit) == IF exit = 0 \/ exit = 16 THEN "nil" ELSE "error"

\* rbd snap protect: exit status 16 for a snapshot that is protected
\* already.
cephRBDSnapshotProtect(B, pool, volumeName, volumeType, snapshotName, fail) ==
  LET s == FindSnap(B, pool, ImageName(volumeType, volumeName), snapshotName)
      exit == IF fail \/ s = 0 THEN 1 ELSE IF B.snap[s].prot THEN 16 ELSE 0
  IN [Reply(ProtectError(exit), IF exit = 0 THEN [B EXCEPT !.snap[s].prot = TRUE] ELSE B)
        EXCEPT !.exit = exit]

\* rbd rm: exits 0 for a missing image; refuses an image that has
\* snapshots or is still mapped.
cephRBDVolumeDelete(B, pool, volumeName, volumeType, fail) ==
  LET v == FindVol(B, pool, ImageName(volumeType, volumeName))
  IN IF fail THEN Reply("error", B)
     ELSE IF v = 0 THEN Reply("nil", B)
     ELSE IF SnapsOf(B, v) # {} \/ B.vol[v].mapped > 0 THEN Reply("error", B)
     ELSE Reply("nil", [B EXCEPT !.vol[v] = [NoVol EXCEPT !.pool = B.vol[v].pool]])

\* A faulty reading of the exit status: 22 is an error like any other.
UnprotectErrorStrict(exit) == IF exit = 0 THEN "nil" ELSE "error"

\* if waitStatus.ExitStatus() == 22 { return nil }
UnprotectError(exit) == IF exit = 0 \/ exit = 22 THEN "nil" ELSE "error"

\* rbd snap unprotect: exit status 22 for a snapshot that is unprotected
\* already; a snapshot that has clones stays protected and the command
\* fails with exit status 16.
cephRBDSnapshotUnprotect(B, pool, volumeName, volumeType, snapshotName, fail) ==
  LET s == FindSnap(B, pool, ImageName(volumeType, volumeName), snapshotName)
      exit == IF fail \/ s = 0 THEN 1
              ELSE IF ~B.snap[s].prot THEN 22
              ELSE IF ClonesOf(B, s) # {} THEN 16
              ELSE 0
  IN [Reply(UnprotectError(exit), IF exit = 0 THEN [B EXCEPT !.snap[s].prot = FALSE] ELSE B)
        EXCEPT !.exit = exit]

\* rbd snap rm: the snapshot must be unprotected and unmapped.
cephRBDSnapshotDelete(B, pool, volumeName, volumeType, snapshotName, fail) ==
  LET s == FindSnap(B, pool, ImageName(volumeType, volumeName), snapshotName)
  IN IF fail \/ s = 0 THEN Reply("error", B)
     ELSE IF B.snap[s].prot \/ B.snap[s].mapped > 0 THEN Reply("error", B)
     ELSE Reply("nil", [B EXCEPT !.snap[s] = NoSnap])

\* rbd mv <pool>/<type>_<name> <pool>/zombie_<type>_<name>
cephRBDVolumeMarkDeleted(B, pool, volumeName, volumeType, fail) ==
  LET img == ImageName(volumeType, volumeName)
      new == ImageName(ZombiePrefix \o volumeType, volumeName)
      v == FindVol(B, pool, img)
  IN IF fail \/ v = 0 \/ FindVol(B, pool, new) # 0 THEN Reply("error", B)
     ELSE Reply("nil", [B EXCEPT !.vol[v].img = new])

\* rbd snap rename
cephRBDVolumeSnapshotRename(B, pool, volumeName, volumeType, oldSnapshotName, newSnapshotName, fail) ==
  LET img == ImageName(volumeType, volumeName)
      s == FindSnap(B, pool, img, oldSnapshotName)
  IN IF fail \/ s = 0 \/ FindSnap(B, pool, img, newSnapshotName) # 0
     THEN Reply("error", B)
     ELSE Reply("nil", [B EXCEPT !.snap[s].name = newSnapshotName])

\* ------------------------------------------------------------- engine
\* Return values of cephContainerDelete and cephContainerSnapshotDelete.
RetError == -1
RetDeleted == 0
RetZombie == 1

\* A frame is one activation of cephContainerDelete ("VD") or of
\* cephContainerSnapshotDelete ("SD").  pc names the rbd command the
\* activation issues next, or, below the top of the stack, the call it
\* waits for ("Loop": a call made from the for loop; "Sweep": the call made
\* after the entity's own delete).  enum and allDel only record what the
\* activation has seen: the error value its enumeration returned, and
\* whether every entry visited so far was handed to a recursive call that
\* returned 0.
NoPar == [has |-> FALSE, type |-> <<>>, name |-> <<>>, snap |-> <<>>]

VDFrame(pool, volumeName, volumeType) ==
  [fn |-> "VD", pool |-> pool, vtype |-> volumeType, vname |-> volumeName,
   sname |-> <<>>, pc |-> "ListSnapshots", todo |-> <<>>, zombies |-> 0,
   canDelete |-> TRUE, par |-> NoPar, enum |-> "unknown", allDel |-> TRUE]

SDFrame(pool, volumeName, volumeType, snapshotName) ==
  [fn |-> "SD", pool |-> pool, vtype |-> volumeType, vname |-> volumeName,
   sname |-> snapshotName, pc |-> "ListClones", todo |-> <<>>, zombies |-> 0,
   canDelete |-> TRUE, par |-> NoPar, enum |-> "unknown", allDel |-> TRUE]

Top(stk) == stk[Len(stk)]
Pop(stk) == SubSeq(stk, 1, Len(stk) - 1)
SetTop(stk, f) == [stk EXCEPT ![Len(stk)] = f]

\* The entity an activation, or an rbd command, names.
Target(f) == <<f.pool, ImageName(f.vtype, f.vname), f.sname>>

\* A configuration: the stack, the value the top-level call returned once
\* the stack is empty, and the log gn: the entities whose call has returned
\* 0 (set) and the activations that returned in the step at hand, innermost
\* first, each with its value (rets).
Config(stk, res, gn) == [stk |-> stk, res |-> res, gone |-> gn]

\* A faulty reading of the enumeration reply: every error counts as
\* "no snapshots".
VolEnumAnyErrorIsNone(err) == IF err = "nil" THEN "listed" ELSE "none"

\* cephContainerDelete on the reply of cephRBDVolumeListSnapshots:
\* if err == nil { loop } else { if err != db.NoSuchObjectError { return -1 } ... }
VolEnumVerdict(err) ==
  IF err = "nil" THEN "listed"
  ELSE IF err = "NoSuchObject" THEN "none"
  ELSE "fail"

\* A faulty reading of the clone enumeration reply: every error counts
\* as "no clones".
SnapEnumAnyErrorIsNone(err) == IF err = "nil" THEN "listed" ELSE "none"

\* cephContainerDelete on the reply of cephRBDVolumeGetParent.
ParentVerdict(err) ==
  IF err = "nil" THEN "listed"
  ELSE IF err = "NoSuchObject" THEN "none"
  ELSE "fail"

\* cephContainerSnapshotDelete on the reply of cephRBDSnapshotListClones:
\* if err != nil { if err != db.NoSuchObjectError { return -1 } ... } else { loop }
SnapEnumVerdict(err) ==
  IF err = "nil" THEN "listed"
  ELSE IF err = "NoSuchObject" THEN "none"
  ELSE "fail"

\* A faulty check of the recursive call: its failure is ignored.
CallNeverFailed(ret) == FALSE

\* ret < 0: the recursive call failed.
CallFailed(ret) == ret < 0

\* The clone loop's verdict on one clone that was handed to
\* cephContainerDelete: canDelete stays only if it was deleted.
CloneKeepsCanDelete(canDelete, ret) == canDelete /\ ret # RetZombie

\* A faulty clone test: every clone is taken for a zombie.
CloneNeverLive(cloneType) == FALSE

\* if !strings.HasPrefix(cloneType, "zombie_") { canDelete = false; continue }
CloneIsLive(cloneType) == ~HasPrefix(cloneType, ZombiePrefix)

\* A faulty clone loop: a live clone does not clear canDelete.
LiveCloneLeavesCanDelete(canDelete) == canDelete

\* canDelete after a live clone was met.
LiveCloneCanDelete(canDelete) == FALSE

\* A faulty parent test: no parent is taken for a zombie.
ParentNeverZombie(parentVolumeType, parentSnapshotName) == FALSE

\* A faulty parent test: only the parent's type is looked at.
ParentTypeIsZombie(parentVolumeType, parentSnapshotName) ==
  HasPrefix(parentVolumeType, ZombiePrefix)

\* strings.HasPrefix(parentVolumeType, "zombie_") ||
\* strings.HasPrefix(parentSnapshotName, "zombie_")
ParentIsZombie(parentVolumeType, parentSnapshotName) ==
  HasPrefix(parentVolumeType, ZombiePrefix) \/ HasPrefix(parentSnapshotName, ZombiePrefix)

\* strings.HasPrefix(volumeType, "zombie_"): sweep the owning image.
OwnerIsZombie(volumeType) == HasPrefix(volumeType, ZombiePrefix)

\* fmt.Sprintf("zombie_%s", snapshotName)
ZombieSnapshotName(snapshotName) == ZombiePrefix \o snapshotName

\* A faulty test before the rename: no image counts as marked already.
NeverAlreadyZombie(volumeType) == FALSE

\* if strings.HasPrefix(volumeType, "zombie_") { return 1 }: the image is
\* marked already, no rename.
AlreadyZombie(volumeType) == HasPrefix(volumeType, ZombiePrefix)

\* A faulty test before the snapshot's rename: no snapshot counts as
\* marked already.
SnapshotNeverAlreadyZombie(snapshotName) == FALSE

\* if strings.HasPrefix(snapshotName, "zombie_") { return 1 }
SnapshotAlreadyZombie(snapshotName) == HasPrefix(snapshotName, ZombiePrefix)

\* A faulty zombie count test: the image is never marked.
NeverMarkZombie(zombies) == FALSE

\* if zombies > 0 { unmap; mark deleted; return 1 }
MustMarkZombie(zombies) == zombies > 0

\* What cephContainerSnapshotDelete returns once the snapshot is removed:
\* "return 0" closes the branch without clones; the branch with clones has
\* no return of its own and runs into the function's final "return 1".
SnapRemovedRet(enum) == IF enum = "NoSuchObject" THEN RetDeleted ELSE RetZombie

RECURSIVE Return(_, _, _)
RECURSIVE Resume(_, _, _)
RECURSIVE Iterate(_, _)

\* The top activation returns ret.
Return(stk, ret, gn) ==
  LET f == Top(stk)
      gn2 == [set |-> IF ret = RetDeleted THEN gn.set \cup {Target(f)} ELSE gn.set,
              rets |-> Append(gn.rets, [fn |-> f.fn, tgt |-> Target(f), ret |-> ret,
                                        zombies |-> f.zombies,
                                        canDelete |-> f.canDelete,
                                        pc |-> f.pc, enum |-> f.enum,
                                               todo |-> f.todo])]
  IN IF Len(stk) = 1 THEN Config(<<>>, ret, gn2)
     ELSE Resume(Pop(stk), ret, gn2)

\* A caller in which the snapshot visited last decides the count.
ResumeLastDecides(stk, ret, gn) ==
  LET f == Top(stk)
  IN IF CallFailed(ret) THEN Return(stk, RetError, gn)
     ELSE IF f.pc = "Sweep"
     THEN Return(stk, IF f.fn = "VD" THEN RetDeleted ELSE SnapRemovedRet(f.enum), gn)
     ELSE IF f.fn = "VD"
     THEN Iterate(SetTop(stk, [f EXCEPT
                 !.zombies = IF ret = RetZombie THEN 1 ELSE 0,
                 !.allDel = @ /\ ret = RetDeleted]), gn)
     ELSE Iterate(SetTop(stk, [f EXCEPT
                 !.canDelete = CloneKeepsCanDelete(@, ret),
                 !.allDel = @ /\ ret = RetDeleted]), gn)

\* The top activation gets ret back from the call it made.
Resume(stk, ret, gn) ==
  LET f == Top(stk)
  IN IF CallFailed(ret) THEN Return(stk, RetError, gn)
     ELSE IF f.pc = "Sweep"
     THEN Return(stk, IF f.fn = "VD" THEN RetDeleted ELSE SnapRemovedRet(f.enum), gn)
     ELSE IF f.fn = "VD"
     THEN Iterate(SetTop(stk, [f EXCEPT
                 !.zombies = IF ret = RetZombie THEN @ + 1 ELSE @,
                 !.allDel = @ /\ ret = RetDeleted]), gn)
     ELSE Iterate(SetTop(stk, [f EXCEPT
                 !.canDelete = CloneKeepsCanDelete(@, ret),
                 !.allDel = @ /\ ret = RetDeleted]), gn)

\* The top activation is at the head of its for loop.
Iterate(stk, gn) ==
  LET f == Top(stk)
  IN IF f.fn = "VD"
     THEN IF f.todo = <<>>
          THEN IF MustMarkZombie(f.zombies)
               THEN Config(SetTop(stk, [f EXCEPT !.pc = "ZombieUnmap"]), RetDeleted, gn)
               ELSE Return(stk, RetDeleted, gn)
          ELSE Config(Append(SetTop(stk, [f EXCEPT !.pc = "Loop", !.todo = Tail(@)]),
                             SDFrame(f.pool, f.vname, f.vtype, Head(f.todo))),
                      RetDeleted, gn)
     ELSE IF f.todo = <<>>
          THEN IF f.canDelete
               THEN Config(SetTop(stk, [f EXCEPT !.pc = "Unprotect"]), RetDeleted, gn)
               ELSE IF SnapshotAlreadyZombie(f.sname)
               THEN Return(stk, RetZombie, gn)
               ELSE Config(SetTop(stk, [f EXCEPT !.pc = "ZombieUnmap"]), RetDeleted, gn)
          ELSE LET c == parseClone(Head(f.todo))
               IN IF c.err # "ok" THEN Return(stk, RetError, gn)
                  ELSE IF CloneIsLive(c.type)
                  THEN Iterate(SetTop(stk, [f EXCEPT !.todo = Tail(@),
                                 !.canDelete = LiveCloneCanDelete(@), !.allDel = FALSE]), gn)
                  ELSE Config(Append(SetTop(stk, [f EXCEPT !.pc = "Loop", !.todo = Tail(@)]),
                                     VDFrame(c.pool, c.name, c.type)),
                              RetDeleted, gn)

\* ------------------------------------------------------------- steps
\* Every order in which the backend may list a set.
Orders(S) ==
  {q \in [1..Cardinality(S) -> S] : \A i, j \in 1..Cardinality(S) : q[i] = q[j] => i = j}

FaultChoices == IF faults < MaxFaults THEN {FALSE, TRUE} ELSE {FALSE}

\* What an activation has established when it issues a command.
FrameCause(f) ==
  IF f.enum = "NoSuchObject" THEN "notfound"
  ELSE IF f.enum = "nil" /\ f.allDel THEN "alldeleted"
  ELSE "other"

\* Non-zombie dependents of the entity f names, in backend B: the live
\* clones of a snapshot, the live snapshots of an image.
LiveDependents(B, f) ==
  IF f.fn = "SD"
  THEN LET s == FindSnap(B, f.pool, ImageName(f.vtype, f.vname), f.sname)
       IN IF s = 0 THEN {} ELSE {c \in ClonesOf(B, s) : ~IsZombieVol(B, c)}
  ELSE LET v == FindVol(B, f.pool, ImageName(f.vtype, f.vname))
       IN IF v = 0 THEN {} ELSE {t \in SnapsOf(B, v) : ~IsZombieSnap(B, t)}

\* What process p carries into a step: the entities whose call has
\* returned 0, and no activation returned in this step yet.
Log(p) == [set |-> gone[p], rets |-> <<>>]

NoOp == [op |-> "none", tgt |-> <<>>, err |-> "nil", cause |-> "other",
         stale |-> FALSE, live |-> FALSE, depth |-> 0, pending |-> FALSE,
         fn |-> "none", zombies |-> 0, canDelete |-> TRUE, par |-> NoPar, exit |-> 0,
         rets |-> <<>>, str |-> <<>>, list |-> <<>>]

\* lastOp also records the activation that issued the command (fn, its
\* zombies count, canDelete and parsed parent), the command's exit status,
\* the returns it led to and what the backend answered: the parent string
\* (str) or the enumeration in the order returned (list).
\* One rbd command of process p has been answered: the backend is r.B, the
\* engine runs on to configuration cfg.
Commit(p, op, f, r, fail, cfg) ==
  /\ vol' = r.B.vol
  /\ snap' = r.B.snap
  /\ stack' = [stack EXCEPT ![p] = cfg.stk]
  /\ result' = [result EXCEPT ![p] = cfg.res]
  /\ gone' = [gone EXCEPT ![p] = IF cfg.stk = <<>> THEN {} ELSE cfg.gone.set]
  /\ lastOp' = [lastOp EXCEPT ![p] =
        [op |-> op, tgt |-> Target(f), err |-> r.err, cause |-> FrameCause(f),
         stale |-> Target(f) \in gone[p],
         live |-> LiveDependents(Backend, f) # {},
         depth |-> Len(stack[p]),
         pending |-> \E i \in 1..Len(stack[p]) : stack[p][i].todo # <<>>,
         fn |-> f.fn, zombies |-> f.zombies, canDelete |-> f.canDelete,
         par |-> f.par, exit |-> r.exit, rets |-> cfg.gone.rets, str |-> r.str,
         list |-> r.list]]
  /\ faults' = IF fail THEN faults + 1 ELSE faults
  /\ failed' = (failed \/ r.err = "error")
  /\ UNCHANGED <<call, pre, calls, ident, parsed, wrap, first, overlap>>

At(p, fn, pcs) ==
  /\ stack[p] # <<>>
  /\ Top(stack[p]).fn = fn
  /\ Top(stack[p]).pc \in pcs

\* cephContainerDelete: the snapshot enumeration and what follows it.
AfterListSnapshots(stk, gn, r, order) ==
  LET f == Top(stk)
      v == VolEnumVerdict(r.err)
  IN IF v = "listed"
     THEN Iterate(SetTop(stk, [f EXCEPT !.todo = order, !.enum = r.err]), gn)
     ELSE IF v = "none"
     THEN Config(SetTop(stk, [f EXCEPT !.pc = "GetParent", !.enum = r.err]), RetDeleted, gn)
     ELSE Return(stk, RetError, gn)

ListSnapshots(p) ==
  /\ At(p, "VD", {"ListSnapshots"})
  /\ \E fail \in FaultChoices :
       LET f == Top(stack[p])
           r == cephRBDVolumeListSnapshots(Backend, f.pool, f.vname, f.vtype, fail)
       IN \E order \in Orders(r.set) :
            Commit(p, "ListSnapshots", f, [r EXCEPT !.list = order], fail,
                   AfterListSnapshots(stack[p], Log(p), r, order))

\* A parent lookup that takes a parent it cannot parse for no parent.
AfterGetParentIgnoringParseError(stk, gn, r) ==
  LET f == Top(stk)
      pp == parseParent(r.str)
  IN IF ParentVerdict(r.err) = "fail" THEN Return(stk, RetError, gn)
     ELSE IF ParentVerdict(r.err) = "listed" /\ pp.err = "ok"
     THEN Config(SetTop(stk, [f EXCEPT !.pc = "Unmap",
             !.par = [has |-> TRUE, type |-> pp.type, name |-> pp.name,
                      snap |-> pp.snap]]), RetDeleted, gn)
     ELSE Config(SetTop(stk, [f EXCEPT !.pc = "Unmap"]), RetDeleted, gn)

\* cephContainerDelete: the parent lookup; the parsed pool is dropped.
AfterGetParent(stk, gn, r) ==
  LET f == Top(stk)
      v == ParentVerdict(r.err)
      pp == parseParent(r.str)
  IN IF v = "listed"
     THEN IF pp.err # "ok" THEN Return(stk, RetError, gn)
          ELSE Config(SetTop(stk, [f EXCEPT !.pc = "Unmap",
                  !.par = [has |-> TRUE, type |-> pp.type, name |-> pp.name,
                           snap |-> pp.snap]]), RetDeleted, gn)
     ELSE IF v = "none"
     THEN Config(SetTop(stk, [f EXCEPT !.pc = "Unmap"]), RetDeleted, gn)
     ELSE Return(stk, RetError, gn)

GetParent(p) ==
  /\ At(p, "VD", {"GetParent"})
  /\ \E fail \in FaultChoices :
       LET f == Top(stack[p])
           r == cephRBDVolumeGetParent(Backend, f.pool, f.vname, f.vtype, fail)
       IN Commit(p, "GetParent", f, r, fail, AfterGetParent(stack[p], Log(p), r))

\* cephContainerDelete: unmap, before the delete or before the rename.
AfterVolumeUnmap(stk, gn, r) ==
  LET f == Top(stk)
  IN IF r.err # "nil" THEN Return(stk, RetError, gn)
     ELSE IF r.again THEN Config(stk, RetDeleted, gn)
     ELSE IF f.pc = "Unmap"
     THEN Config(SetTop(stk, [f EXCEPT !.pc = "Delete"]), RetDeleted, gn)
     ELSE IF AlreadyZombie(f.vtype) THEN Return(stk, RetZombie, gn)
     ELSE Config(SetTop(stk, [f EXCEPT !.pc = "MarkDeleted"]), RetDeleted, gn)

VolumeUnmap(p) ==
  /\ At(p, "VD", {"Unmap", "ZombieUnmap"})
  /\ \E fail \in FaultChoices :
       LET f == Top(stack[p])
           r == cephRBDVolumeUnmap(Backend, f.pool, f.vname, f.vtype, TRUE, fail)
       IN Commit(p, "VolumeUnmap", f, r, fail, AfterVolumeUnmap(stack[p], Log(p), r))

\* cephContainerDelete: the delete, then the sweep of a zombie parent in
\* the pool of the deleted image.
AfterVolumeDelete(stk, gn, r) ==
  LET f == Top(stk)
  IN IF r.err # "nil" THEN Return(stk, RetError, gn)
     ELSE IF f.par.has /\ ParentIsZombie(f.par.type, f.par.snap)
     THEN Config(Append(SetTop(stk, [f EXCEPT !.pc = "Sweep"]),
                        SDFrame(f.pool, f.par.name, f.par.type, f.par.snap)),
                 RetDeleted, gn)
     ELSE Return(stk, RetDeleted, gn)

VolumeDelete(p) ==
  /\ At(p, "VD", {"Delete"})
  /\ \E fail \in FaultChoices :
       LET f == Top(stack[p])
           r == cephRBDVolumeDelete(Backend, f.pool, f.vname, f.vtype, fail)
       IN Commit(p, "VolumeDelete", f, r, fail, AfterVolumeDelete(stack[p], Log(p), r))

\* cephContainerDelete: the rename to the zombie name.
AfterVolumeMarkDeleted(stk, gn, r) ==
  IF r.err # "nil" THEN Return(stk, RetError, gn) ELSE Return(stk, RetZombie, gn)

VolumeMarkDeleted(p) ==
  /\ At(p, "VD", {"MarkDeleted"})
  /\ \E fail \in FaultChoices :
       LET f == Top(stack[p])
           r == cephRBDVolumeMarkDeleted(Backend, f.pool, f.vname, f.vtype, fail)
       IN Commit(p, "VolumeMarkDeleted", f, r, fail,
                 AfterVolumeMarkDeleted(stack[p], Log(p), r))

\* cephContainerSnapshotDelete: the clone enumeration and what follows it.
AfterListClones(stk, gn, r, order) ==
  LET f == Top(stk)
      v == SnapEnumVerdict(r.err)
  IN IF v = "listed"
     THEN Iterate(SetTop(stk, [f EXCEPT !.todo = order, !.enum = r.err]), gn)
     ELSE IF v = "none"
     THEN Config(SetTop(stk, [f EXCEPT !.pc = "Unprotect", !.enum = r.err]), RetDeleted, gn)
     ELSE Return(stk, RetError, gn)

SnapshotListClones(p) ==
  /\ At(p, "SD", {"ListClones"})
  /\ \E fail \in FaultChoices :
       LET f == Top(stack[p])
           r == cephRBDSnapshotListClones(Backend, f.pool, f.vname, f.vtype, f.sname, fail)
       IN \E order \in Orders(r.set) :
            Commit(p, "ListClones", f, [r EXCEPT !.list = order], fail,
                   AfterListClones(stack[p], Log(p), r, order))

\* A removal that goes on to the unmap whatever the unprotect returned.
AfterSnapshotUnprotectIgnoringError(stk, gn, r) ==
  Config(SetTop(stk, [Top(stk) EXCEPT !.pc = "Unmap"]), RetDeleted, gn)

\* cephContainerSnapshotDelete: unprotect, the first step of the removal.
AfterSnapshotUnprotect(stk, gn, r) ==
  IF r.err # "nil" THEN Return(stk, RetError, gn)
  ELSE Config(SetTop(stk, [Top(stk) EXCEPT !.pc = "Unmap"]), RetDeleted, gn)

SnapshotUnprotect(p) ==
  /\ At(p, "SD", {"Unprotect"})
  /\ \E fail \in FaultChoices :
       LET f == Top(stack[p])
           r == cephRBDSnapshotUnprotect(Backend, f.pool, f.vname, f.vtype, f.sname, fail)
       IN Commit(p, "Unprotect", f, r, fail, AfterSnapshotUnprotect(stack[p], Log(p), r))

\* A removal that unprotects again after every unmap.
AfterSnapshotUnmapThenUnprotect(stk, gn, r) ==
  IF r.err # "nil" THEN Return(stk, RetError, gn)
  ELSE Config(SetTop(stk, [Top(stk) EXCEPT !.pc = "Unprotect"]), RetDeleted, gn)

\* cephContainerSnapshotDelete: unmap, before the delete or the rename.
AfterSnapshotUnmap(stk, gn, r) ==
  LET f == Top(stk)
  IN IF r.err # "nil" THEN Return(stk, RetError, gn)
     ELSE IF r.again THEN Config(stk, RetDeleted, gn)
     ELSE IF f.pc = "Unmap"
     THEN Config(SetTop(stk, [f EXCEPT !.pc = "Delete"]), RetDeleted, gn)
     ELSE Config(SetTop(stk, [f EXCEPT !.pc = "Rename"]), RetDeleted, gn)

SnapshotUnmap(p) ==
  /\ At(p, "SD", {"Unmap", "ZombieUnmap"})
  /\ \E fail \in FaultChoices :
       LET f == Top(stack[p])
           r == cephRBDVolumeSnapshotUnmap(Backend, f.pool, f.vname, f.vtype, f.sname, TRUE, fail)
       IN Commit(p, "SnapshotUnmap", f, r, fail, AfterSnapshotUnmap(stack[p], Log(p), r))

\* cephContainerSnapshotDelete: the delete, then the sweep of a zombie
\* owning image.
AfterSnapshotDelete(stk, gn, r) ==
  LET f == Top(stk)
  IN IF r.err # "nil" THEN Return(stk, RetError, gn)
     ELSE IF OwnerIsZombie(f.vtype)
     THEN Config(Append(SetTop(stk, [f EXCEPT !.pc = "Sweep"]),
                        VDFrame(f.pool, f.vname, f.vtype)),
                 RetDeleted, gn)
     ELSE Return(stk, SnapRemovedRet(f.enum), gn)

SnapshotDelete(p) ==
  /\ At(p, "SD", {"Delete"})
  /\ \E fail \in FaultChoices :
       LET f == Top(stack[p])
           r == cephRBDSnapshotDelete(Backend, f.pool, f.vname, f.vtype, f.sname, fail)
       IN Commit(p, "SnapshotDelete", f, r, fail, AfterSnapshotDelete(stack[p], Log(p), r))

\* cephContainerSnapshotDelete: the rename to the zombie name.
AfterSnapshotRename(stk, gn, r) ==
  IF r.err # "nil" THEN Return(stk, RetError, gn) ELSE Return(stk, RetZombie, gn)

SnapshotRename(p) ==
  /\ At(p, "SD", {"Rename"})
  /\ \E fail \in FaultChoices :
       LET f == Top(stack[p])
           r == cephRBDVolumeSnapshotRename(Backend, f.pool, f.vname, f.vtype, f.sname,
                                            ZombieSnapshotName(f.sname), fail)
       IN Commit(p, "SnapshotRename", f, r, fail, AfterSnapshotRename(stack[p], Log(p), r))

\* ------------------------------------------------------------- callers
\* A caller deletes what its database tracks: an image under its live
\* name (also one already deleted or renamed away), a live-named snapshot
\* of a live image.  One pass at a time: the caller holds the lock of the
\* tree.
NoCall == [fn |-> "none", pool |-> <<>>, type |-> <<>>, name |-> <<>>, snap |-> <<>>]

Idle == \A q \in Procs : stack[q] = <<>>

Begin(p, c, frame) ==
  /\ calls < MaxCalls
  /\ stack' = [stack EXCEPT ![p] = <<frame>>]
  /\ call' = [call EXCEPT ![p] = c]
  /\ pre' = [pre EXCEPT ![p] = Backend]
  /\ result' = [result EXCEPT ![p] = RetDeleted]
  /\ gone' = [gone EXCEPT ![p] = {}]
  /\ lastOp' = [lastOp EXCEPT ![p] = NoOp]
  /\ calls' = calls + 1
  /\ overlap' = (overlap \/ \E q \in Procs \ {p} : stack[q] # <<>>)
  /\ UNCHANGED <<vol, snap, faults, failed, ident, parsed, wrap, first>>

CallContainerDelete(p) ==
  /\ Idle
  /\ \E v \in Vols :
       Begin(p, [fn |-> "VD", pool |-> vol[v].pool, type |-> TypeTag,
                 name |-> VolName(v), snap |-> <<>>],
             VDFrame(vol[v].pool, VolName(v), TypeTag))

CallContainerSnapshotDelete(p) ==
  /\ Idle
  /\ \E s \in Snaps :
       /\ snap[s].ex
       /\ ~IsZombieSnap(Backend, s)
       /\ ~IsZombieVol(Backend, snap[s].owner)
       /\ LET v == snap[s].owner
          IN Begin(p, [fn |-> "SD", pool |-> vol[v].pool, type |-> TypeTag,
                       name |-> VolName(v), snap |-> snap[s].name],
                   SDFrame(vol[v].pool, VolName(v), TypeTag, snap[s].name))

\* ------------------------------------------------------------- initial states
\* A forest of alive entities: every image exists, snapshot s of the
\* first nsnaps belongs to owner[s], image v is a clone of parent[v] (0:
\* of none).  A snapshot that has clones is protected.  Images are mapped
\* k times.  At most one image lives in the second pool.
Forests ==
  {f \in [nsnaps : 0..MaxSnaps, owner : [Snaps -> Vols], parent : [Vols -> 0..MaxSnaps],
          inq : 0..MaxVols, k : 0..MaxMapped] :
     /\ \A s \in Snaps : s > f.nsnaps => f.owner[s] = 1
     /\ \A s, t \in Snaps : s < t /\ t =< f.nsnaps => f.owner[s] =< f.owner[t]
     /\ \A v \in Vols : f.parent[v] # 0 =>
          f.parent[v] =< f.nsnaps /\ f.owner[f.parent[v]] < v
     /\ f.inq # 1}

InitVol(f, v) ==
  [ex |-> TRUE, pool |-> IF f.inq = v THEN PoolQ ELSE PoolP,
   img |-> ImageName(TypeTag, VolName(v)), mapped |-> f.k, parent |-> f.parent[v]]

InitSnap(f, s) ==
  IF s > f.nsnaps THEN NoSnap
  ELSE [ex |-> TRUE, owner |-> f.owner[s], name |-> SnapName(s),
        prot |-> \E v \in Vols : f.parent[v] = s, mapped |-> 0]

\* The engine before any call, on one of the clusters F.
InitFrom(F) ==
  \E f \in F :
    /\ vol = [v \in Vols |-> InitVol(f, v)]
    /\ snap = [s \in Snaps |-> InitSnap(f, s)]
    /\ stack = [p \in Procs |-> <<>>]
    /\ result = [p \in Procs |-> RetDeleted]
    /\ call = [p \in Procs |-> NoCall]
    /\ pre = [p \in Procs |-> [vol |-> [v \in Vols |-> InitVol(f, v)],
                               snap |-> [s \in Snaps |-> InitSnap(f, s)]]]
    /\ lastOp = [p \in Procs |-> NoOp]
    /\ gone = [p \in Procs |-> {}]
    /\ faults = 0
    /\ failed = FALSE
    /\ calls = 0
    /\ ident = NoIdent
    /\ parsed = NotParsed
    /\ wrap = NoWrap
    /\ first = NoFirst
    /\ overlap = FALSE

Init == InitFrom(Forests)

\* The clusters with one pool and nothing mapped.
LocalForests == {f \in Forests : f.inq = 0 /\ f.k = 0}

LocalInit == InitFrom(LocalForests)

Next ==
  \/ CallContainerDelete(1)
  \/ CallContainerSnapshotDelete(1)
  \/ ListSnapshots(1)
  \/ GetParent(1)
  \/ VolumeUnmap(1)
  \/ VolumeDelete(1)
  \/ VolumeMarkDeleted(1)
  \/ SnapshotListClones(1)
  \/ SnapshotUnprotect(1)
  \/ SnapshotUnmap(1)
  \/ SnapshotDelete(1)
  \/ SnapshotRename(1)

Spec == Init /\ [][Next]_vars

\* Every rbd command returns.  A step of the engine is a step of Next that
\* is not a call (calls unchanged), and one is enabled exactly while an
\* activation is on the stack, so that weak fairness of the engine's
\* steps, []<>~ENABLED <<Step>>_vars \/ []<><<Step>>_vars, reads:
EngineStep == calls' = calls

CommandsReturn == []<>(stack[1] = <<>>) \/ []<><<EngineStep>>_vars

FairSpec == Init /\ [][Next]_vars /\ CommandsReturn

\* ------------------------------------------------- the same call, twice
\* The top-level cephContainerDelete that has just returned is issued
\* again on the backend as it was before it: what the first run returned
\* and left is kept in first.
Replay(p) ==
  /\ Idle
  /\ ~first.done
  /\ call[p].fn = "VD"
  /\ calls < MaxCalls
  /\ first' = [done |-> TRUE, res |-> result[p], faults |-> faults, at |-> calls + 1,
               retry |-> 0, B |-> Backend]
  /\ vol' = pre[p].vol
  /\ snap' = pre[p].snap
  /\ stack' = [stack EXCEPT ![p] = <<VDFrame(call[p].pool, call[p].name, call[p].type)>>]
  /\ result' = [result EXCEPT ![p] = RetDeleted]
  /\ gone' = [gone EXCEPT ![p] = {}]
  /\ lastOp' = [lastOp EXCEPT ![p] = NoOp]
  /\ calls' = calls + 1
  /\ UNCHANGED <<call, pre, faults, failed, ident, parsed, wrap, overlap>>

ReplayNext ==
  \/ CallContainerDelete(1)
  \/ CallContainerSnapshotDelete(1)
  \/ ListSnapshots(1)
  \/ GetParent(1)
  \/ VolumeUnmap(1)
  \/ VolumeDelete(1)
  \/ VolumeMarkDeleted(1)
  \/ SnapshotListClones(1)
  \/ SnapshotUnprotect(1)
  \/ SnapshotUnmap(1)
  \/ SnapshotDelete(1)
  \/ SnapshotRename(1)
  \/ Replay(1)

ReplaySpec == LocalInit /\ [][ReplayNext]_vars

\* ------------------------------------------------- the call, once more
\* The second run has returned -1 on a command that failed of its own:
\* the same top-level cephContainerDelete is issued once more, on the
\* backend as the failed run left it.
Retry(p) ==
  /\ Idle
  /\ first.done
  /\ first.retry = 0
  /\ calls = first.at
  /\ calls < MaxCalls
  /\ result[p] = RetError
  /\ faults = first.faults + 1
  /\ first' = [first EXCEPT !.retry = calls + 1]
  /\ stack' = [stack EXCEPT ![p] = <<VDFrame(call[p].pool, call[p].name, call[p].type)>>]
  /\ pre' = [pre EXCEPT ![p] = Backend]
  /\ result' = [result EXCEPT ![p] = RetDeleted]
  /\ gone' = [gone EXCEPT ![p] = {}]
  /\ lastOp' = [lastOp EXCEPT ![p] = NoOp]
  /\ calls' = calls + 1
  /\ UNCHANGED <<vol, snap, call, faults, failed, ident, parsed, wrap, overlap>>

RetryNext ==
  \/ CallContainerDelete(1)
  \/ CallContainerSnapshotDelete(1)
  \/ ListSnapshots(1)
  \/ GetParent(1)
  \/ VolumeUnmap(1)
  \/ VolumeDelete(1)
  \/ VolumeMarkDeleted(1)
  \/ SnapshotListClones(1)
  \/ SnapshotUnprotect(1)
  \/ SnapshotUnmap(1)
  \/ SnapshotDelete(1)
  \/ SnapshotRename(1)
  \/ Replay(1)
  \/ Retry(1)

RetrySpec == LocalInit /\ [][RetryNext]_vars

\* ------------------------------------------------ callers without a lock
\* Two callers that do not hold the lock of the tree: a call begins
\* whatever the other process does, and the rbd commands of the two
\* passes interleave.
UnlockedContainerDelete(p) ==
  /\ stack[p] = <<>>
  /\ calls < MaxConcCalls
  /\ \E v \in Vols :
       Begin(p, [fn |-> "VD", pool |-> vol[v].pool, type |-> TypeTag,
                 name |-> VolName(v), snap |-> <<>>],
             VDFrame(vol[v].pool, VolName(v), TypeTag))

UnlockedContainerSnapshotDelete(p) ==
  /\ stack[p] = <<>>
  /\ calls < MaxConcCalls
  /\ \E s \in Snaps :
       /\ snap[s].ex
       /\ ~IsZombieSnap(Backend, s)
       /\ ~IsZombieVol(Backend, snap[s].owner)
       /\ LET v == snap[s].owner
          IN Begin(p, [fn |-> "SD", pool |-> vol[v].pool, type |-> TypeTag,
                       name |-> VolName(v), snap |-> snap[s].name],
                   SDFrame(vol[v].pool, VolName(v), TypeTag, snap[s].name))

ConcNext ==
  \E p \in Procs :
    \/ UnlockedContainerDelete(p)
    \/ UnlockedContainerSnapshotDelete(p)
    \/ ListSnapshots(p)
    \/ GetParent(p)
    \/ VolumeUnmap(p)
    \/ VolumeDelete(p)
    \/ VolumeMarkDeleted(p)
    \/ SnapshotListClones(p)
    \/ SnapshotUnprotect(p)
    \/ SnapshotUnmap(p)
    \/ SnapshotDelete(p)
    \/ SnapshotRename(p)

ConcSpec == LocalInit /\ [][ConcNext]_vars

\* ------------------------------------------- malformed backend answers
\* The parent strings rbd may print for str: str itself and, while a
\* failure may still be injected, str with a delimiter lost.
ParentAnswers(str, fail) ==
  {str} \cup (IF ~fail /\ faults < MaxFaults THEN Malformed("parent", str) ELSE {})

\* The clone lists rbd may print for order: order itself and, while a
\* failure may still be injected, order with a delimiter lost in one line.
CloneAnswers(order, fail) ==
  {order} \cup
  (IF ~fail /\ faults < MaxFaults
   THEN UNION {{[order EXCEPT ![k] = m] : m \in Malformed("clone", order[k])} :
               k \in 1..Len(order)}
   ELSE {})

\* cephContainerDelete: `rbd info`, which may name a parent that
\* parseParent cannot split.
GetParentOrMalformed(p) ==
  /\ At(p, "VD", {"GetParent"})
  /\ \E fail \in FaultChoices :
       LET f == Top(stack[p])
           r0 == cephRBDVolumeGetParent(Backend, f.pool, f.vname, f.vtype, fail)
       IN \E m \in (IF r0.err = "nil" THEN ParentAnswers(r0.str, fail) ELSE {r0.str}) :
            LET r == [r0 EXCEPT !.str = m]
            IN Commit(p, "GetParent", f, r, fail \/ m # r0.str,
                      AfterGetParent(stack[p], Log(p), r))

\* cephContainerSnapshotDelete: `rbd children`, one line of which may be
\* a clone that parseClone cannot split.
SnapshotListClonesOrMalformed(p) ==
  /\ At(p, "SD", {"ListClones"})
  /\ \E fail \in FaultChoices :
       LET f == Top(stack[p])
           r == cephRBDSnapshotListClones(Backend, f.pool, f.vname, f.vtype, f.sname, fail)
       IN \E order \in Orders(r.set) :
            \E list \in (IF r.err = "nil" THEN CloneAnswers(order, fail) ELSE {order}) :
              Commit(p, "ListClones", f, [r EXCEPT !.list = list], fail \/ list # order,
                     AfterListClones(stack[p], Log(p), r, list))

MalformedNext ==
  \/ CallContainerDelete(1)
  \/ CallContainerSnapshotDelete(1)
  \/ ListSnapshots(1)
  \/ VolumeUnmap(1)
  \/ VolumeDelete(1)
  \/ VolumeMarkDeleted(1)
  \/ SnapshotUnprotect(1)
  \/ SnapshotUnmap(1)
  \/ SnapshotDelete(1)
  \/ SnapshotRename(1)
  \/ GetParentOrMalformed(1)
  \/ SnapshotListClonesOrMalformed(1)

MalformedSpec == LocalInit /\ [][MalformedNext]_vars

\* ------------------------------------------------ a backend that is busy
\* rbd exits with status 16 (EBUSY) and changes nothing: the snapshot has
\* got a clone since its clones were listed, the device is held open.
BusyReply(err) == [Reply(err, Backend) EXCEPT !.exit = 16]

\* Whether the command is answered busy: only while a failure may still
\* be injected, and not together with another failure.
BusyChoices(fail) == IF ~fail /\ faults < MaxFaults THEN {FALSE, TRUE} ELSE {FALSE}

\* cephContainerSnapshotDelete: `rbd snap unprotect`, which may be
\* answered busy.
SnapshotUnprotectOrBusy(p) ==
  /\ At(p, "SD", {"Unprotect"})
  /\ \E fail \in FaultChoices :
       \E busy \in BusyChoices(fail) :
         LET f == Top(stack[p])
             r == IF busy THEN BusyReply(UnprotectError(16))
                  ELSE cephRBDSnapshotUnprotect(Backend, f.pool, f.vname, f.vtype, f.sname, fail)
         IN Commit(p, "Unprotect", f, r, fail \/ busy,
                   AfterSnapshotUnprotect(stack[p], Log(p), r))

\* cephContainerDelete: `rbd unmap` of the image, which may be answered
\* busy.
VolumeUnmapOrBusy(p) ==
  /\ At(p, "VD", {"Unmap", "ZombieUnmap"})
  /\ \E fail \in FaultChoices :
       \E busy \in BusyChoices(fail) :
         LET f == Top(stack[p])
             r == IF busy THEN BusyReply(UnmapError(16))
                  ELSE cephRBDVolumeUnmap(Backend, f.pool, f.vname, f.vtype, TRUE, fail)
         IN Commit(p, "VolumeUnmap", f, r, fail \/ busy,
                   AfterVolumeUnmap(stack[p], Log(p), r))

\* cephContainerSnapshotDelete: `rbd unmap` of the snapshot, which may be
\* answered busy.
SnapshotUnmapOrBusy(p) ==
  /\ At(p, "SD", {"Unmap", "ZombieUnmap"})
  /\ \E fail \in FaultChoices :
       \E busy \in BusyChoices(fail) :
         LET f == Top(stack[p])
             r == IF busy THEN BusyReply(UnmapError(16))
                  ELSE cephRBDVolumeSnapshotUnmap(Backend, f.pool, f.vname, f.vtype, f.sname,
                                                  TRUE, fail)
         IN Commit(p, "SnapshotUnmap", f, r, fail \/ busy,
                   AfterSnapshotUnmap(stack[p], Log(p), r))

BusyNext ==
  \/ CallContainerDelete(1)
  \/ CallContainerSnapshotDelete(1)
  \/ ListSnapshots(1)
  \/ GetParent(1)
  \/ VolumeDelete(1)
  \/ VolumeMarkDeleted(1)
  \/ SnapshotListClones(1)
  \/ SnapshotDelete(1)
  \/ SnapshotRename(1)
  \/ SnapshotUnprotectOrBusy(1)
  \/ VolumeUnmapOrBusy(1)
  \/ SnapshotUnmapOrBusy(1)

BusySpec == LocalInit /\ [][BusyNext]_vars

\* ------------------------------------------------------------- the parsers alone
\* parseClone and parseParent applied to identifiers as the rbd tool
\* prints them: <pool>/<type>_<name> and <pool>/<type>_<name>@<snapshot>,
\* the type tag with or without "zombie_" in front, for the type tags,
\* image names and snapshot names below.
TypeTags ==
  {<<"c">>, <<"i", "m", "a", "g", "e">>, <<"c", "u", "s", "t", "o", "m">>,
   <<"c", "o", "n", "t", "a", "i", "n", "e", "r">>}

ImageNames ==
  {<<"a">>, <<"a", "b", "c", "d">>, <<"a", "_", "b">>, ZombiePrefix \o <<"x">>}

SnapshotNames == {<<"s">>, <<"s", "0">>, ZombiePrefix \o <<"s">>}

PoolNames == {PoolP, PoolQ}

VolumeTypes == TypeTags \cup {ZombiePrefix \o t : t \in TypeTags}

CloneIdents ==
  {[kind |-> "clone", str |-> CloneString(pool, ImageName(volumeType, volumeName))] :
     pool \in PoolNames, volumeType \in VolumeTypes, volumeName \in ImageNames}

ParentIdents ==
  {[kind |-> "parent",
    str |-> ParentString(pool, ImageName(volumeType, volumeName), snapshotName)] :
     pool \in PoolNames, volumeType \in VolumeTypes, volumeName \in ImageNames,
     snapshotName \in SnapshotNames}

WellFormedIdents == CloneIdents \cup ParentIdents

\* What a caller may also hand to the parsers: an identifier that lost
\* one character, a delimiter or any other.
DamagedIdents ==
  UNION {{[kind |-> id.kind, str |-> DropChar(id.str, i)] : i \in 1..Len(id.str)} : id \in WellFormedIdents}

\* The engine is at rest on an empty cluster while the parsers run.
ParserInit ==
  /\ ident \in WellFormedIdents \cup DamagedIdents
  /\ parsed = NotParsed
  /\ vol = [v \in Vols |-> NoVol]
  /\ snap = [s \in Snaps |-> NoSnap]
  /\ stack = [p \in Procs |-> <<>>]
  /\ result = [p \in Procs |-> RetDeleted]
  /\ call = [p \in Procs |-> NoCall]
  /\ pre = [p \in Procs |-> [vol |-> [v \in Vols |-> NoVol],
                             snap |-> [s \in Snaps |-> NoSnap]]]
  /\ lastOp = [p \in Procs |-> NoOp]
  /\ gone = [p \in Procs |-> {}]
  /\ faults = 0
  /\ failed = FALSE
  /\ calls = 0
  /\ wrap = NoWrap
  /\ first = NoFirst
  /\ overlap = FALSE

EngineVars ==
  <<vol, snap, stack, result, call, pre, lastOp, gone, faults, failed, calls, first,
    overlap>>

ParseCloneCall ==
  /\ ident.kind = "clone"
  /\ parsed = NotParsed
  /\ parsed' = parseClone(ident.str)
  /\ UNCHANGED <<ident, wrap, EngineVars>>

ParseParentCall ==
  /\ ident.kind = "parent"
  /\ parsed = NotParsed
  /\ parsed' = parseParent(ident.str)
  /\ UNCHANGED <<ident, wrap, EngineVars>>

ParserNext == ParseCloneCall \/ ParseParentCall

ParserSpec == ParserInit /\ [][ParserNext]_vars

\* ------------------------------------------------------------- the wrappers alone
\* The unmap, protect and unprotect wrappers called directly, one call at
\* a time, on a one-pool cluster of alive entities; images may be mapped again by
\* cephRBDVolumeMap at any moment.  An unmap call is one step per rbd
\* command: the wrapper has no bound on them, the model stops at MaxUnmaps.
WrapTarget(v, snapshotName) ==
  [pool |-> vol[v].pool, vtype |-> TypeTag, vname |-> VolName(v), sname |-> snapshotName]

WrapPrev == [fn |-> wrap.fn, tgt |-> wrap.tgt, err |-> wrap.err, fault |-> wrap.fault]

WrapperInit ==
  /\ \E f \in Forests :
       /\ f.inq = 0
       /\ vol = [v \in Vols |-> InitVol(f, v)]
       /\ snap = [s \in Snaps |-> [InitSnap(f, s) EXCEPT
                     !.mapped = IF s > f.nsnaps THEN 0 ELSE f.k]]
       /\ pre = [p \in Procs |-> [vol |-> [v \in Vols |-> InitVol(f, v)],
                                  snap |-> [s \in Snaps |-> InitSnap(f, s)]]]
  /\ stack = [p \in Procs |-> <<>>]
  /\ result = [p \in Procs |-> RetDeleted]
  /\ call = [p \in Procs |-> NoCall]
  /\ lastOp = [p \in Procs |-> NoOp]
  /\ gone = [p \in Procs |-> {}]
  /\ faults = 0
  /\ failed = FALSE
  /\ calls = 0
  /\ ident = NoIdent
  /\ parsed = NotParsed
  /\ wrap = NoWrap
  /\ first = NoFirst
  /\ overlap = FALSE

WrapFrame ==
  <<stack, result, call, pre, lastOp, gone, failed, ident, parsed, first, overlap>>

\* One rbd command of a wrapper call has been answered.
WrapCommit(w, r, fail) ==
  /\ vol' = r.B.vol
  /\ snap' = r.B.snap
  /\ wrap' = [w EXCEPT !.issued = @ + 1, !.exit = r.exit, !.err = r.err,
                       !.running = r.again, !.fault = @ \/ fail]
  /\ faults' = IF fail THEN faults + 1 ELSE faults
  /\ UNCHANGED WrapFrame

WrapBegin(fn, tgt, until) ==
  [NoWrap EXCEPT !.fn = fn, !.tgt = tgt, !.until = until, !.prev = WrapPrev]

VolumeUnmapCall ==
  /\ ~wrap.running
  /\ calls < MaxWrapCalls
  /\ calls' = calls + 1
  /\ \E v \in Vols, until \in BOOLEAN, fail \in FaultChoices :
       LET t == WrapTarget(v, <<>>)
       IN WrapCommit(WrapBegin("VolumeUnmap", t, until),
                     cephRBDVolumeUnmap(Backend, t.pool, t.vname, t.vtype, until, fail), fail)

SnapshotUnmapCall ==
  /\ ~wrap.running
  /\ calls < MaxWrapCalls
  /\ calls' = calls + 1
  /\ \E s \in Snaps, until \in BOOLEAN, fail \in FaultChoices :
       /\ snap[s].ex
       /\ LET t == WrapTarget(snap[s].owner, snap[s].name)
          IN WrapCommit(WrapBegin("SnapshotUnmap", t, until),
                        cephRBDVolumeSnapshotUnmap(Backend, t.pool, t.vname, t.vtype,
                                                   t.sname, until, fail), fail)

\* goto again
UnmapAgainStep ==
  /\ wrap.running
  /\ wrap.issued < MaxUnmaps
  /\ UNCHANGED calls
  /\ \E fail \in FaultChoices :
       LET t == wrap.tgt
       IN WrapCommit(wrap,
            IF wrap.fn = "VolumeUnmap"
            THEN cephRBDVolumeUnmap(Backend, t.pool, t.vname, t.vtype, wrap.until, fail)
            ELSE cephRBDVolumeSnapshotUnmap(Backend, t.pool, t.vname, t.vtype, t.sname,
                                            wrap.until, fail), fail)

SnapshotProtectCall ==
  /\ ~wrap.running
  /\ calls < MaxWrapCalls
  /\ calls' = calls + 1
  /\ \E s \in Snaps, fail \in FaultChoices :
       /\ snap[s].ex
       /\ LET t == WrapTarget(snap[s].owner, snap[s].name)
          IN WrapCommit([WrapBegin("Protect", t, FALSE) EXCEPT !.prot0 = snap[s].prot],
                        cephRBDSnapshotProtect(Backend, t.pool, t.vname, t.vtype,
                                               t.sname, fail), fail)

SnapshotUnprotectCall ==
  /\ ~wrap.running
  /\ calls < MaxWrapCalls
  /\ calls' = calls + 1
  /\ \E s \in Snaps, fail \in FaultChoices :
       /\ snap[s].ex
       /\ LET t == WrapTarget(snap[s].owner, snap[s].name)
          IN WrapCommit([WrapBegin("Unprotect", t, FALSE) EXCEPT !.prot0 = snap[s].prot],
                        cephRBDSnapshotUnprotect(Backend, t.pool, t.vname, t.vtype,
                                                 t.sname, fail), fail)

\* Somebody maps an image again.
VolumeMapCall ==
  /\ \E v \in Vols :
       /\ vol[v].mapped < MaxMapped
       /\ LET t == WrapTarget(v, <<>>)
              r == cephRBDVolumeMap(Backend, t.pool, t.vname, t.vtype, FALSE)
          IN vol' = r.B.vol
  /\ UNCHANGED <<snap, wrap, faults, calls, WrapFrame>>

WrapperNext ==
  \/ VolumeUnmapCall
  \/ SnapshotUnmapCall
  \/ UnmapAgainStep
  \/ SnapshotProtectCall
  \/ SnapshotUnprotectCall
  \/ VolumeMapCall

WrapperSpec == WrapperInit /\ [][WrapperNext]_vars

\* ------------------------------------------------------------- properties
Done(p) == stack[p] = <<>> /\ call[p].fn # "none"

\* The image the top-level call of p names, in backend B (0: none).
CallVol(B, p) == FindVol(B, call[p].pool, ImageName(call[p].type, call[p].name))

\* A failed command always ends the call, so the last command of a
\* finished call tells whether any command of the call failed.
CleanCall(p) == Done(p) /\ lastOp[p].err # "error"

\* C1: a snapshot delete is issued only by an activation whose clone
\* enumeration returned NoSuchObjectError, or listed clones that were all
\* zombie-prefixed and whose recursive cephContainerDelete all returned 0;
\* and when it is issued the snapshot has no non-zombie clone.
C1_SnapshotDeleteOnlyWithoutLiveClones ==
  \A p \in Procs :
    lastOp[p].op = "SnapshotDelete" =>
      lastOp[p].cause \in {"notfound", "alldeleted"} /\ ~lastOp[p].live

C1_Witness ==
  /\ lastOp[1].op = "SnapshotDelete"
  /\ lastOp[1].err = "nil"
  /\ lastOp[1].cause = "alldeleted"

\* C2: an image delete is issued only by an activation whose snapshot
\* enumeration returned NoSuchObjectError or whose snapshots all reduced
\* to 0; and when it is issued the image has no non-zombie snapshot.
C2_VolumeDeleteOnlyWithoutLiveSnapshots ==
  \A p \in Procs :
    lastOp[p].op = "VolumeDelete" =>
      lastOp[p].cause \in {"notfound", "alldeleted"} /\ ~lastOp[p].live

C2_Witness ==
  /\ lastOp[1].op = "VolumeDelete"
  /\ lastOp[1].err = "nil"
  /\ lastOp[1].depth > 1
  /\ CallVol(pre[1], 1) # 0

\* C3: whenever a top-level cephContainerDelete returns 0, the image it
\* names no longer exists.
C3_DeletedMeansAbsent ==
  \A p \in Procs :
    Done(p) /\ call[p].fn = "VD" /\ result[p] = RetDeleted => CallVol(Backend, p) = 0

\* C4: an unprotect is issued only after the clone enumeration returned
\* NoSuchObjectError or every clone was zombie-prefixed and deleted, and
\* never on a snapshot that still has a non-zombie clone.
C4_UnprotectOnlyWithoutLiveClones ==
  \A p \in Procs :
    lastOp[p].op = "Unprotect" =>
      ~lastOp[p].live /\ lastOp[p].cause \in {"notfound", "alldeleted"}

C4_Witness ==
  /\ lastOp[1].op = "Unprotect"
  /\ lastOp[1].err = "nil"
  /\ lastOp[1].cause = "alldeleted"
  /\ stack[1] # <<>>

\* A tombstone nothing refers to: a zombie snapshot without clones, a
\* zombie image without snapshots.
OrphanSnaps(B) == {s \in Snaps : B.snap[s].ex /\ IsZombieSnap(B, s) /\ ClonesOf(B, s) = {}}
OrphanVols(B) == {v \in Vols : B.vol[v].ex /\ IsZombieVol(B, v) /\ SnapsOf(B, v) = {}}

\* C5: between top-level calls, as long as no command has failed, every
\* zombie snapshot has a clone and every zombie image has a snapshot.
C5_NoOrphanTombstone ==
  Idle /\ ~failed => OrphanSnaps(Backend) = {} /\ OrphanVols(Backend) = {}

C5_Witness ==
  /\ Idle
  /\ ~failed
  /\ \E v \in Vols : pre[1].vol[v].ex /\ IsZombieVol(pre[1], v) /\ ~vol[v].ex
  /\ \E s \in Snaps : pre[1].snap[s].ex /\ IsZombieSnap(pre[1], s) /\ ~snap[s].ex

\* C6: no command names an entity whose cephContainerDelete or
\* cephContainerSnapshotDelete has already returned 0 in this top-level
\* call.
C6_NoStaleReference == \A p \in Procs : ~lastOp[p].stale

\* C7: cephContainerDelete of an image that is absent from the backend
\* (under its name and under its zombie name) returns 0.
AbsentAtCall(p) ==
  /\ CallVol(pre[p], p) = 0
  /\ FindVol(pre[p], call[p].pool,
             ImageName(ZombiePrefix \o call[p].type, call[p].name)) = 0

C7_Idempotent ==
  \A p \in Procs :
    Done(p) /\ call[p].fn = "VD" /\ AbsentAtCall(p) /\ faults = 0 => result[p] = RetDeleted

\* Scenario B at the start of a call: live image a whose only snapshot s
\* is live-named and has the live image b as its only clone.
ScenarioB(B, a, s, b) ==
  /\ B.vol[a].ex /\ ~IsZombieVol(B, a)
  /\ SnapsOf(B, a) = {s} /\ ~IsZombieSnap(B, s)
  /\ ClonesOf(B, s) = {b} /\ ~IsZombieVol(B, b)

\* The backend Scenario B must leave: s and a renamed, a unmapped,
\* everything else as it was.
AfterScenarioB(B, a, s) ==
  [vol |-> [B.vol EXCEPT ![a].img = ZombiePrefix \o @, ![a].mapped = 0],
   snap |-> [B.snap EXCEPT ![s].name = ZombiePrefix \o @, ![s].mapped = 0]]

\* C8: in Scenario B, cephContainerDelete of a returns 1 and leaves s
\* renamed to zombie_s, a unmapped and renamed to its zombie name, b and
\* every other entity unchanged and nothing deleted.
C8_ScenarioB ==
  \A p \in Procs : \A a, b \in Vols : \A s \in Snaps :
    CleanCall(p) /\ call[p].fn = "VD" /\ CallVol(pre[p], p) = a /\ ScenarioB(pre[p], a, s, b)
      => result[p] = RetZombie /\ Backend = AfterScenarioB(pre[p], a, s)

C8_Witness ==
  \E a, b \in Vols : \E s \in Snaps :
    /\ CleanCall(1) /\ call[1].fn = "VD" /\ CallVol(pre[1], 1) = a
    /\ ScenarioB(pre[1], a, s, b)
    /\ pre[1].vol[a].mapped > 0
    /\ result[1] = RetZombie
    /\ Backend = AfterScenarioB(pre[1], a, s)

\* Scenario C at the start of a call: zombie image a whose only snapshot
\* is the zombie s, whose only clone is the live image b without
\* snapshots.
ScenarioC(B, a, s, b) ==
  /\ B.vol[a].ex /\ IsZombieVol(B, a)
  /\ SnapsOf(B, a) = {s} /\ IsZombieSnap(B, s)
  /\ ClonesOf(B, s) = {b} /\ ~IsZombieVol(B, b)
  /\ SnapsOf(B, b) = {}

\* C9: in Scenario C, on a backend where no command fails of its own,
\* cephContainerDelete of b returns 0 and b, zombie_s and zombie_a are
\* all gone; while the call runs, s is deleted only after b and a only
\* after s.
C9_ScenarioC ==
  \A p \in Procs : \A a, b \in Vols : \A s \in Snaps :
    call[p].fn = "VD" /\ CallVol(pre[p], p) = b /\ ScenarioC(pre[p], a, s, b) /\ faults = 0
      => /\ (~snap[s].ex => ~vol[b].ex)
         /\ (~vol[a].ex => ~snap[s].ex)
         /\ (Done(p) => result[p] = RetDeleted /\ ~vol[a].ex /\ ~snap[s].ex /\ ~vol[b].ex)

\* The same with a and b in one pool (the case the engine handles).
ScenarioCSamePool ==
  \A p \in Procs : \A a, b \in Vols : \A s \in Snaps :
    (call[p].fn = "VD" /\ CallVol(pre[p], p) = b /\ ScenarioC(pre[p], a, s, b)
     /\ faults = 0 /\ pre[p].vol[a].pool = pre[p].vol[b].pool)
      => /\ (~snap[s].ex => ~vol[b].ex)
         /\ (~vol[a].ex => ~snap[s].ex)
         /\ (Done(p) => result[p] = RetDeleted /\ ~vol[a].ex /\ ~snap[s].ex /\ ~vol[b].ex)

\* C10: a command that fails is the last command of its top-level call:
\* every enclosing activation returns -1 at once, whatever is left of its
\* enumeration.
C10_FailFast ==
  \A p \in Procs :
    lastOp[p].err = "error" => stack[p] = <<>> /\ result[p] = RetError

C10_Witness ==
  /\ lastOp[1].err = "error"
  /\ lastOp[1].depth > 1
  /\ lastOp[1].pending
  /\ stack[1] = <<>>
  /\ result[1] = RetError

\* pool + "/" + type + "_" + name [+ "@" + snapshot]
Compose(kind, r) ==
  IF kind = "parent" THEN ParentString(r.pool, ImageName(r.type, r.name), r.snap)
  ELSE CloneString(r.pool, ImageName(r.type, r.name))

\* C11: every well-formed identifier parses, and re-composing the parsed
\* components gives the identifier back.
C11_RoundTrip ==
  (ident \in WellFormedIdents /\ parsed # NotParsed)
    => (parsed.err = "ok" /\ Compose(ident.kind, parsed) = ident.str)

IsUnmap == wrap.fn \in {"VolumeUnmap", "SnapshotUnmap"}

\* C12: with unmapUntilEINVAL the unmap wrappers return nil only on exit
\* status 22 and go round again after every successful rbd unmap, however
\* many there have been; any other exit status is returned as the error;
\* without unmapUntilEINVAL they return after the first command.
C12_UnmapUntilEINVAL ==
  IsUnmap =>
    /\ wrap.issued >= 1
    /\ (wrap.until => (wrap.running <=> wrap.exit = 0))
    /\ (wrap.until /\ ~wrap.running /\ wrap.err = "nil" => wrap.exit = 22)
    /\ (~wrap.until => ~wrap.running /\ wrap.issued = 1)
    /\ (~wrap.running => (wrap.err = "nil" <=> wrap.exit \in {0, 22}))

\* A loop that ran more rbd commands than the image had mappings when it
\* started, and then returned nil.
C12_Witness ==
  /\ wrap.fn = "VolumeUnmap"
  /\ wrap.until
  /\ ~wrap.running
  /\ wrap.err = "nil"
  /\ wrap.issued > MaxMapped + 1

\* The loop has no bound of its own: it is still running at the model's.
UnmapStillRunning == IsUnmap /\ wrap.running /\ wrap.issued = MaxUnmaps

\* The snapshot the wrapper call names (0: none).
WrapSnap ==
  FindSnap(Backend, wrap.tgt.pool, ImageName(wrap.tgt.vtype, wrap.tgt.vname), wrap.tgt.sname)

\* C13: cephRBDSnapshotUnprotect twice in a row on a snapshot without
\* clones returns nil both times and leaves it unprotected;
\* cephRBDSnapshotProtect on a protected snapshot returns nil and leaves it
\* protected (no command failing of its own).
C13_ProtectIdempotent ==
  /\ (/\ wrap.fn = "Unprotect" /\ wrap.prev.fn = "Unprotect" /\ wrap.prev.tgt = wrap.tgt
      /\ ~wrap.fault /\ ~wrap.prev.fault /\ ClonesOf(Backend, WrapSnap) = {})
       => wrap.err = "nil" /\ wrap.prev.err = "nil" /\ ~snap[WrapSnap].prot
  /\ (wrap.fn = "Protect" /\ wrap.prot0 /\ ~wrap.fault)
       => wrap.err = "nil" /\ snap[WrapSnap].prot

\* The second of two unprotects, answered with exit status 22.
C13_Witness ==
  /\ wrap.fn = "Unprotect" /\ wrap.prev.fn = "Unprotect" /\ wrap.prev.tgt = wrap.tgt
  /\ ~wrap.fault /\ ~wrap.prev.fault
  /\ wrap.exit = 22 /\ wrap.err = "nil" /\ wrap.prev.err = "nil"
  /\ ~snap[WrapSnap].prot

\* A protect of a protected snapshot, answered with exit status 16.
ProtectAgain ==
  wrap.fn = "Protect" /\ wrap.prot0 /\ wrap.exit = 16 /\ wrap.err = "nil" /\ snap[WrapSnap].prot

\* The commands that change an entity: unmap, rename, delete.
ChangingOps ==
  {"VolumeUnmap", "VolumeDelete", "VolumeMarkDeleted",
   "SnapshotUnmap", "SnapshotDelete", "SnapshotRename"}

\* The command names the image of the top-level call.
OnCallTarget(p) ==
  /\ lastOp[p].tgt[1] = call[p].pool
  /\ lastOp[p].tgt[2] = ImageName(call[p].type, call[p].name)

\* C14: during a top-level cephContainerDelete of X every unmap, rename
\* or delete names X, one of X's snapshots, a zombie-prefixed image, a
\* snapshot of a zombie-prefixed image, or a zombie-prefixed snapshot.
C14_LiveEntitiesUntouched ==
  \A p \in Procs :
    call[p].fn = "VD" /\ lastOp[p].op \in ChangingOps =>
      \/ OnCallTarget(p)
      \/ HasPrefix(lastOp[p].tgt[2], ZombiePrefix)
      \/ HasPrefix(lastOp[p].tgt[3], ZombiePrefix)

\* A zombie image deleted by the call of another image, while a live
\* image that is not the call's target is there, with its snapshots, as
\* it was before.
C14_Witness ==
  /\ call[1].fn = "VD"
  /\ lastOp[1].op = "VolumeDelete"
  /\ lastOp[1].err = "nil"
  /\ ~OnCallTarget(1)
  /\ \E v \in Vols : /\ vol[v].ex /\ ~IsZombieVol(Backend, v)
                      /\ v # CallVol(pre[1], 1)
                      /\ vol[v] = pre[1].vol[v]
                      /\ SnapsOf(pre[1], v) # {}
                      /\ \A s \in SnapsOf(pre[1], v) : snap[s] = pre[1].snap[s]

\* The zombie name of an image name (itself, if it has the prefix).
ZombieImage(img) == IF HasPrefix(img, ZombiePrefix) THEN img ELSE ZombiePrefix \o img

\* The image named by tgt is in backend B under its zombie name, unmapped.
IsUnmappedZombie(B, tgt) ==
  LET v == FindVol(B, tgt[1], ZombieImage(tgt[2]))
  IN v # 0 /\ B.vol[v].mapped = 0

\* C15: an activation of cephContainerDelete that has counted a snapshot
\* marked zombie issues only unmaps and the rename for its image, the
\* rename only for a type that is not zombie-prefixed, never GetParent or
\* the delete; unless a command fails it returns 1, and then the image is
\* there under its zombie name and unmapped.
C15_MarkedZombiePath ==
  \A p \in Procs :
    /\ (lastOp[p].fn = "VD" /\ lastOp[p].zombies > 0
          => lastOp[p].op \in {"VolumeUnmap", "VolumeMarkDeleted"})
    /\ (lastOp[p].op = "VolumeMarkDeleted"
          => lastOp[p].zombies > 0 /\ ~HasPrefix(lastOp[p].tgt[2], ZombiePrefix))
    /\ \A i \in 1..Len(lastOp[p].rets) :
         LET x == lastOp[p].rets[i]
         IN x.fn = "VD" /\ x.zombies > 0 /\ lastOp[p].err # "error"
              => x.ret = RetZombie /\ IsUnmappedZombie(Backend, x.tgt)

\* A nested activation for a zombie-typed image returns 1 after its unmap,
\* without a rename.
C15_Witness ==
  /\ lastOp[1].op = "VolumeUnmap"
  /\ lastOp[1].err = "nil"
  /\ HasPrefix(lastOp[1].tgt[2], ZombiePrefix)
  /\ Len(lastOp[1].rets) >= 1
  /\ lastOp[1].rets[1].fn = "VD"
  /\ lastOp[1].rets[1].zombies > 0
  /\ lastOp[1].rets[1].ret = RetZombie
  /\ IsUnmappedZombie(Backend, lastOp[1].tgt)

\* The snapshot named by tgt is in backend B under its zombie name,
\* protected and with a clone.
IsKeptZombieSnapshot(B, tgt) ==
  LET s == FindSnap(B, tgt[1], tgt[2], ZombieImage(tgt[3]))
  IN s # 0 /\ B.snap[s].prot /\ ClonesOf(B, s) # {}

\* C16: an activation of cephContainerSnapshotDelete whose canDelete is
\* false issues only the unmap and the rename, and only for a snapshot
\* name that is not zombie-prefixed; unless a command fails it returns 1,
\* and then the snapshot is there under its zombie name, protected and
\* with a clone.
C16_KeptSnapshot ==
  \A p \in Procs :
    /\ (lastOp[p].fn = "SD" /\ ~lastOp[p].canDelete
          => /\ lastOp[p].op \in {"SnapshotUnmap", "SnapshotRename"}
             /\ ~HasPrefix(lastOp[p].tgt[3], ZombiePrefix))
    /\ \A i \in 1..Len(lastOp[p].rets) :
         LET x == lastOp[p].rets[i]
         IN x.fn = "SD" /\ ~x.canDelete /\ lastOp[p].err # "error"
              => x.ret = RetZombie /\ IsKeptZombieSnapshot(Backend, x.tgt)

\* An activation for a zombie-named snapshot returns 1 from its loop: the
\* last command was not one of its own on the snapshot.
C16_Witness ==
  /\ lastOp[1].op \notin {"SnapshotUnmap", "SnapshotRename"}
  /\ \E i \in 1..Len(lastOp[1].rets) :
       LET x == lastOp[1].rets[i]
       IN /\ x.fn = "SD" /\ ~x.canDelete /\ x.ret = RetZombie
          /\ HasPrefix(x.tgt[3], ZombiePrefix)
          /\ IsKeptZombieSnapshot(Backend, x.tgt)

\* An activation renames its snapshot and returns 1.
SnapshotMarked ==
  /\ lastOp[1].op = "SnapshotRename" /\ lastOp[1].err = "nil"
  /\ lastOp[1].rets[1].ret = RetZombie
  /\ IsKeptZombieSnapshot(Backend, lastOp[1].tgt)

\* The image of a clone has just been deleted (its parent was parsed as
\* lastOp[p].par).
CloneDeleted(p) ==
  lastOp[p].op = "VolumeDelete" /\ lastOp[p].err = "nil" /\ lastOp[p].par.has

\* The deleting activation has called cephContainerSnapshotDelete for the
\* parent and waits for it.
ParentSwept(p) ==
  /\ Len(stack[p]) >= 2
  /\ stack[p][Len(stack[p]) - 1].fn = "VD"
  /\ stack[p][Len(stack[p]) - 1].pc = "Sweep"
  /\ Top(stack[p]).fn = "SD"
  /\ Top(stack[p]).pc = "ListClones"
  /\ Top(stack[p]).vtype = lastOp[p].par.type
  /\ Top(stack[p]).vname = lastOp[p].par.name
  /\ Top(stack[p]).sname = lastOp[p].par.snap

\* C17, as claimed: after the delete of a clone, the parent is swept
\* exactly when the type of its owning image is zombie-prefixed.
C17_SweepIffOwnerZombie ==
  \A p \in Procs :
    CloneDeleted(p) => (ParentSwept(p) <=> HasPrefix(lastOp[p].par.type, ZombiePrefix))

\* C17, amended: after the delete of a clone, the parent is swept exactly
\* when the type of its owning image or its own snapshot name is
\* zombie-prefixed.
C17_SweepIffParentZombie ==
  \A p \in Procs :
    CloneDeleted(p) =>
      (ParentSwept(p) <=> \/ HasPrefix(lastOp[p].par.type, ZombiePrefix)
                          \/ HasPrefix(lastOp[p].par.snap, ZombiePrefix))

\* The sweep of a zombie-named snapshot of a live image.
C17_Witness ==
  /\ CloneDeleted(1)
  /\ ParentSwept(1)
  /\ ~HasPrefix(lastOp[1].par.type, ZombiePrefix)
  /\ HasPrefix(lastOp[1].par.snap, ZombiePrefix)

\* No sweep of a live-named snapshot of a live image.
ParentLeft ==
  /\ CloneDeleted(1)
  /\ ~ParentSwept(1)
  /\ ~HasPrefix(lastOp[1].par.type, ZombiePrefix)

\* The snapshot has just been deleted.
SnapshotGone(p) == lastOp[p].op = "SnapshotDelete" /\ lastOp[p].err = "nil"

\* The deleting activation has called cephContainerDelete for the owning
\* image and waits for it.
OwnerSwept(p) ==
  /\ Len(stack[p]) >= 2
  /\ stack[p][Len(stack[p]) - 1].fn = "SD"
  /\ stack[p][Len(stack[p]) - 1].pc = "Sweep"
  /\ Top(stack[p]).fn = "VD"
  /\ Top(stack[p]).pc = "ListSnapshots"
  /\ Target(Top(stack[p]))[2] = lastOp[p].tgt[2]

\* The i-th return of the step is that of an activation of
\* cephContainerSnapshotDelete which has deleted its snapshot: straight
\* after the delete, or after the call for the owning image.
ReturnsAfterDelete(p, i) ==
  LET x == lastOp[p].rets[i]
  IN /\ x.fn = "SD"
     /\ \/ x.pc = "Delete" /\ SnapshotGone(p) /\ i = 1
        \/ x.pc = "Sweep"

\* What the call for the owning image returned to the i-th return's
\* activation (0 if there was no such call).
OwnerRet(p, i) ==
  IF lastOp[p].rets[i].pc = "Sweep" THEN lastOp[p].rets[i - 1].ret ELSE RetDeleted

\* C18: once cephContainerSnapshotDelete has deleted its snapshot, it calls
\* cephContainerDelete for the owning image exactly when the image's type
\* is zombie-prefixed, and returns -1 if that call returned -1 and 0
\* otherwise.
C18_ReturnAfterSnapshotDelete ==
  \A p \in Procs :
    /\ SnapshotGone(p) => (OwnerSwept(p) <=> HasPrefix(lastOp[p].tgt[2], ZombiePrefix))
    /\ \A i \in 1..Len(lastOp[p].rets) :
         ReturnsAfterDelete(p, i) =>
           lastOp[p].rets[i].ret = IF OwnerRet(p, i) < 0 THEN RetError ELSE RetDeleted

\* The same on the path without clones only.
ReturnAfterDeleteNoClones ==
  \A p \in Procs :
    /\ SnapshotGone(p) => (OwnerSwept(p) <=> HasPrefix(lastOp[p].tgt[2], ZombiePrefix))
    /\ \A i \in 1..Len(lastOp[p].rets) :
         ReturnsAfterDelete(p, i) /\ lastOp[p].rets[i].enum = "NoSuchObject" =>
           lastOp[p].rets[i].ret = IF OwnerRet(p, i) < 0 THEN RetError ELSE RetDeleted

\* ------------------------------------------------ order of the commands
\* A step of the engine issues one rbd command; lastOp'[p] is that
\* command and lastOp[p] the command the process issued before it.
Issued(p) == stack[p] # <<>> /\ calls' = calls

\* The wrapper returned nil: the rbd command succeeded, and an unmap
\* "until EINVAL" has reached exit status 22.
Succeeded(o) ==
  /\ o.err = "nil"
  /\ (o.op \in {"VolumeUnmap", "SnapshotUnmap"} => o.exit = 22)

\* One more round of the same unmap loop.
UnmapRound(o, op) == o.op = op /\ o.err = "nil" /\ o.exit = 0

\* cephRBDVolumeGetParent answered: a parent, or "no parent".
ParentAnswered(o) == o.op = "GetParent" /\ o.err \in {"nil", "NoSuchObject"}

SameActivation(prev, o) == prev.tgt = o.tgt /\ prev.depth = o.depth /\ prev.fn = o.fn

\* The step calls cephContainerSnapshotDelete on the parent snapshot of
\* the image the calling cephContainerDelete works on.
ParentSweepStarted(p) ==
  /\ Len(stack'[p]) = Len(stack[p]) + 1
  /\ Top(stack'[p]).fn = "SD"
  /\ Top(stack[p]).fn = "VD"
  /\ Top(stack'[p]).vname # Top(stack[p]).vname

\* The step calls cephContainerDelete on the image that owns the snapshot
\* the calling cephContainerSnapshotDelete works on.
OwnerSweepStarted(p) ==
  /\ Len(stack'[p]) = Len(stack[p]) + 1
  /\ Top(stack'[p]).fn = "VD"
  /\ Top(stack[p]).fn = "SD"
  /\ Top(stack'[p]).vname = Top(stack[p]).vname
  /\ Top(stack'[p]).vtype = Top(stack[p]).vtype

RemovalInOrder(p) ==
  LET o == lastOp'[p]
      prev == lastOp[p]
      f == Top(stack[p])
  IN /\ (o.op = "SnapshotDelete") =>
          (prev.op = "SnapshotUnmap" /\ Succeeded(prev) /\ SameActivation(prev, o))
     /\ (o.op = "SnapshotUnmap" /\ f.pc = "Unmap") =>
          (/\ SameActivation(prev, o)
           /\ \/ prev.op = "Unprotect" /\ Succeeded(prev)
              \/ UnmapRound(prev, "SnapshotUnmap"))
     /\ (o.op = "VolumeDelete") =>
          (prev.op = "VolumeUnmap" /\ Succeeded(prev) /\ SameActivation(prev, o))
     /\ (o.op = "VolumeUnmap" /\ f.pc = "Unmap") =>
          (/\ SameActivation(prev, o)
           /\ \/ ParentAnswered(prev)
              \/ UnmapRound(prev, "VolumeUnmap"))

SweepAfterDelete(p) ==
  LET o == lastOp'[p]
      f == Top(stack[p])
  IN /\ ParentSweepStarted(p) =>
          (/\ o.op = "VolumeDelete" /\ Succeeded(o) /\ o.tgt = Target(f)
           /\ FindVol(Backend, f.pool, ImageName(f.vtype, f.vname)) # 0
           /\ FindVol(Backend', f.pool, ImageName(f.vtype, f.vname)) = 0)
     /\ OwnerSweepStarted(p) =>
          (/\ o.op = "SnapshotDelete" /\ Succeeded(o) /\ o.tgt = Target(f)
           /\ FindSnap(Backend, f.pool, ImageName(f.vtype, f.vname), f.sname) # 0
           /\ FindSnap(Backend', f.pool, ImageName(f.vtype, f.vname), f.sname) = 0)

\* C19: a snapshot is removed by Unprotect, Unmap, Delete and an image by
\* GetParent, Unmap, Delete, each command issued by the same activation
\* right after the previous one returned without error (GetParent: with
\* a parent or with "no parent"); and the sweep of a parent snapshot, or
\* of an owning image, is called in the very step in which the Delete of
\* the clone, or of the snapshot, succeeded and removed it.
C19_Ordering ==
  [][\A p \in Procs : Issued(p) => (RemovalInOrder(p) /\ SweepAfterDelete(p))]_vars

\* A whole removal chain has run and was followed by a sweep one level up:
\* the clone's Delete succeeded, the swept parent snapshot has been
\* unprotected, unmapped and deleted, and its owning image is being swept.
C19_Witness ==
  /\ Len(stack[1]) = 3
  /\ stack[1][1].fn = "VD" /\ stack[1][1].pc = "Sweep"
  /\ stack[1][2].fn = "SD" /\ stack[1][2].pc = "Sweep"
  /\ stack[1][3].fn = "VD"
  /\ lastOp[1].op = "SnapshotDelete"
  /\ lastOp[1].err = "nil"
  /\ lastOp[1].tgt = Target(stack[1][2])

\* --------------------------------------------- zombie prefix in parseParent
ParentParsedOk == ident.kind = "parent" /\ parsed # NotParsed /\ parsed.err = "ok"

\* The prefix of the returned type tag and of the returned snapshot name
\* is the prefix of the text after "/" and of the text after "@".
ZombieFlagsDetected ==
  ParentParsedOk =>
    /\ HasPrefix(parsed.type, ZombiePrefix)
         <=> HasPrefix(AfterSep(ident.str, <<"/">>), ZombiePrefix)
    /\ HasPrefix(parsed.snap, ZombiePrefix)
         <=> HasPrefix(AfterSep(ident.str, <<"@">>), ZombiePrefix)

\* The type tag returned for the identifier is the one returned for the
\* same identifier without the zombie prefix on its volume name and on
\* its snapshot name.
TypeTagUnchanged ==
  ParentParsedOk =>
    \A pool \in PoolNames, volumeType \in VolumeTypes, volumeName \in ImageNames, snapshotName \in SnapshotNames :
      ident.str = ParentString(pool, ImageName(volumeType, volumeName), snapshotName)
        => parsed.type =
             parseParent(ParentString(pool,
                           ImageName(volumeType, StripZombie(volumeName)),
                           StripZombie(snapshotName))).type

\* C20: parseParent detects the zombie prefix on the type tag and on the
\* snapshot name independently, each from its own part of the
\* identifier, and a zombie prefix on the snapshot name or inside the
\* volume name never changes the returned type tag.
C20_ZombieDetection == ZombieFlagsDetected /\ TypeTagUnchanged

\* ------------------------------------------------ errors of the parsers
\* C21: parseClone and parseParent return the components or an error,
\* an error exactly when a required delimiter is missing, and never
\* abort on a slice past the end of the string.
C21_ErrorIffDelimiterMissing ==
  parsed # NotParsed =>
    /\ parsed.err \in {"ok", "error"}
    /\ parsed.err = "error" <=> DelimiterMissing(ident.kind, ident.str)

\* The parsers never abort.
ParserNeverAborts == parsed.err # "panic"

\* Apart from the aborts, an error is returned exactly when a delimiter
\* is missing.
ErrorIffDelimiterMissing ==
  (parsed # NotParsed /\ parsed.err # "panic")
    => (parsed.err = "error" <=> DelimiterMissing(ident.kind, ident.str))

\* ------------------------------------------------ malformed identifiers
\* The whole operation of process p ends in this step, with Failed.
Aborted(p) == stack'[p] = <<>> /\ result'[p] = RetError

\* The return record of the activation stack[p][i] when it returns in
\* this step: the activations return innermost first.
Returned(p, i) == i > Len(stack[p]) - Len(lastOp'[p].rets)

ReturnRecord(p, i) == lastOp'[p].rets[Len(stack[p]) - i + 1]

\* The clones the activation stack[p][i] has still to visit, before and
\* after the step; the step that enumerates them starts from the list
\* the backend returned.
TodoBefore(p, i) ==
  IF i = Len(stack[p]) /\ lastOp'[p].op = "ListClones" THEN lastOp'[p].list
  ELSE stack[p][i].todo

TodoAfter(p, i) == IF Returned(p, i) THEN ReturnRecord(p, i).todo ELSE stack'[p][i].todo

\* cephContainerDelete stops at a parent it cannot parse: the activation
\* returns -1 from the parent lookup, the operation is over, and the
\* step has left the image as it was.
ParentParseFailureAborts(p) ==
  LET o == lastOp'[p]
      f == Top(stack[p])
  IN (o.op = "GetParent" /\ o.err = "nil" /\ parseParent(o.str).err # "ok") =>
       /\ Returned(p, Len(stack[p]))
       /\ ReturnRecord(p, Len(stack[p])).fn = "VD"
       /\ ReturnRecord(p, Len(stack[p])).tgt = o.tgt
       /\ ReturnRecord(p, Len(stack[p])).ret = RetError
       /\ ReturnRecord(p, Len(stack[p])).pc = "GetParent"
       /\ Aborted(p)
       /\ FindVol(Backend', f.pool, ImageName(f.vtype, f.vname)) # 0
       /\ vol' = vol /\ snap' = snap

\* cephContainerSnapshotDelete visits the clones in the order listed and
\* never goes past one it cannot parse; when it reaches one it returns -1
\* from the loop, before any unprotect, unmap, rename or delete of the
\* snapshot, which is still there, and the operation is over.  Until
\* then the clone waits in the list of an activation that is inside a
\* nested call.
CloneParseFailureAborts(p) ==
  \A i \in 1..Len(stack[p]) :
    (stack[p][i].fn = "SD") =>
      LET before == TodoBefore(p, i)
          after == TodoAfter(p, i)
          visited == Len(before) - Len(after)
      IN /\ visited >= 0
         /\ after = SubSeq(before, visited + 1, Len(before))
         /\ \A j \in 1..visited : parseClone(before[j]).err = "ok"
         /\ (after # <<>> /\ parseClone(Head(after)).err # "ok") =>
              IF Returned(p, i)
              THEN /\ ReturnRecord(p, i).ret = RetError
                   /\ ReturnRecord(p, i).pc \in {"ListClones", "Loop"}
                   /\ Aborted(p)
                   /\ FindSnap(Backend', stack[p][i].pool,
                               ImageName(stack[p][i].vtype, stack[p][i].vname),
                               stack[p][i].sname) # 0
              ELSE i < Len(stack'[p])

CloneParseFailureReached ==
  /\ stack[1] = <<>>
  /\ result[1] = RetError
  /\ ~failed
  /\ lastOp[1].op = "ListClones"
  /\ Len(lastOp[1].rets) >= 2
  /\ LET x == lastOp[1].rets[1]
     IN /\ x.fn = "SD"
        /\ x.todo # <<>>
        /\ Len(x.todo) < Len(lastOp[1].list)
        /\ parseClone(Head(x.todo)).err # "ok"

\* ------------------------------------------------ target of the sweep
\* What parseParent makes of the parent string the backend gives for the
\* image the activation f works on.
PayloadOf(B, f) == parseParent(cephRBDVolumeGetParent(B, f.pool, f.vname, f.vtype, FALSE).str)

SweepNamesPayload(p) ==
  LET pay == PayloadOf(Backend, Top(stack[p]))
      n == Top(stack'[p])
  IN /\ pay.err = "ok"
     /\ n.vtype = pay.type
     /\ n.vname = pay.name
     /\ n.sname = pay.snap

SweepPoolIsPayloadPool(p) == Top(stack'[p]).pool = PayloadOf(Backend, Top(stack[p])).pool

\* C23: the cephContainerSnapshotDelete called for the parent of a
\* deleted clone is given the pool, type tag, volume name and snapshot
\* name parsed from the parent string of that clone.
C23_SweepTargetsPayload ==
  [][\A p \in Procs : (Issued(p) /\ ParentSweepStarted(p))
        => (SweepNamesPayload(p) /\ SweepPoolIsPayloadPool(p))]_vars

\* Type tag, volume name and snapshot name are the parsed ones.
SweepTargetsPayloadNames ==
  [][\A p \in Procs : (Issued(p) /\ ParentSweepStarted(p)) => SweepNamesPayload(p)]_vars

\* ------------------------------------------------ depth of the recursion
\* Number of image and snapshot levels below and including image v: the
\* image, its snapshots, their clones, and so on.
RECURSIVE VolLevels(_, _)
VolLevels(B, v) ==
  LET below == {1 + VolLevels(B, c) : c \in UNION {ClonesOf(B, s) : s \in SnapsOf(B, v)}}
      snaps == IF SnapsOf(B, v) = {} THEN {0} ELSE {1}
      all == below \cup snaps
  IN 1 + (CHOOSE n \in all : \A m \in all : m =< n)

\* Depth of the lineage forest: the levels on its longest path from a root.
ForestDepth(B) ==
  LET all == {VolLevels(B, v) : v \in {w \in Vols : B.vol[w].ex}} \cup {0}
  IN CHOOSE n \in all : \A m \in all : m =< n

\* C24: the nesting of cephContainerDelete / cephContainerSnapshotDelete
\* activations during a top-level call never exceeds the depth of the
\* lineage forest the call started on (the top-level activation itself is
\* there whatever the forest).
C24_DepthBounded ==
  \A p \in Procs : Len(stack[p]) > 1 => Len(stack[p]) =< ForestDepth(pre[p])

\* ------------------------------------------------------------ termination
\* C25: every top-level cephContainerDelete returns, with -1, 0 or 1,
\* when every rbd command returns.
C25_Terminates ==
  (call[1].fn = "VD" /\ stack[1] # <<>>)
    ~> (stack[1] = <<>> /\ result[1] \in {RetError, RetDeleted, RetZombie})

\* A top-level cephContainerDelete has returned after the recursion went
\* down into a snapshot and up again from a deleted clone to its zombie
\* parent and the parent's owner.
C25_Witness ==
  /\ call[1].fn = "VD"
  /\ stack[1] = <<>>
  /\ result[1] = RetDeleted
  /\ Len(lastOp[1].rets) >= 3
  /\ \E i \in 1..Len(lastOp[1].rets) : lastOp[1].rets[i].pc = "Sweep"
  /\ \E i \in 1..Len(lastOp[1].rets) : lastOp[1].rets[i].pc = "Loop"

\* While an activation is on the stack it waits for an rbd command that
\* one of the engine's actions answers.
EveryActivationWaitsForACommand ==
  \A p \in Procs : stack[p] # <<>> =>
    \/ Top(stack[p]).fn = "VD" /\ Top(stack[p]).pc \in
         {"ListSnapshots", "GetParent", "Unmap", "ZombieUnmap", "Delete", "MarkDeleted"}
    \/ Top(stack[p]).fn = "SD" /\ Top(stack[p]).pc \in
         {"ListClones", "Unprotect", "Unmap", "ZombieUnmap", "Delete", "Rename"}

\* ------------------------------------------------- order of enumeration
\* Which images and snapshots exist, and under which names.
Shape(B) ==
  [vol |-> [v \in Vols |-> IF B.vol[v].ex THEN <<B.vol[v].pool, B.vol[v].img>> ELSE <<>>],
   snap |-> [s \in Snaps |-> IF B.snap[s].ex THEN <<B.snap[s].owner, B.snap[s].name>>
                             ELSE <<>>]]

\* The call run again from the same backend has returned, and no rbd
\* command has failed so far.
SecondRunDone == first.done /\ calls = first.at /\ stack[1] = <<>> /\ faults = 0

\* C26: without backend failures, two runs of the same top-level
\* cephContainerDelete from the same backend return the same value and
\* leave the same images and snapshots under the same names, whatever
\* the orders in which snapshots and clones were listed in each.
C26_OrderIrrelevant ==
  SecondRunDone => (result[1] = first.res /\ Shape(Backend) = Shape(first.B))

\* Two runs of a call on an image with two snapshots have been compared
\* (the runs cover both orders of the list), and the call changed the
\* backend.
C26_Witness ==
  /\ SecondRunDone
  /\ first.B # pre[1]
  /\ Cardinality(SnapsOf(pre[1], CHOOSE v \in Vols : VolName(v) = call[1].name)) = 2

\* ------------------------------------------------- callers without a lock
\* No rbd command was made to fail, and no call began while a call of
\* the other process was in flight.
SerialAndFaultFree == ~overlap /\ Idle /\ faults = 0

\* A zombie snapshot without clones on a zombie image.
TombstonePairs(B) == {s \in OrphanSnaps(B) : IsZombieVol(B, B.snap[s].owner)}

\* C27: when the top-level calls ran one after the other and no rbd
\* command was made to fail, no call has returned -1 and no zombie
\* snapshot without clones is left on a zombie image.
C27_SerialPassesAreSafe ==
  SerialAndFaultFree =>
    /\ \A p \in Procs : result[p] # RetError
    /\ TombstonePairs(Backend) = {}

\* Two calls did overlap, and one of them returned -1 without any
\* injected failure.
OverlapFailureReached ==
  overlap /\ Idle /\ faults = 0 /\ \E p \in Procs : result[p] = RetError

\* ------------------------------------------------------ busy and EINVAL
\* The commands whose wrapper looks at the exit status.
StateChangingOps == {"Unprotect", "VolumeUnmap", "SnapshotUnmap"}

\* The command of o made its activation return -1.
FailedItsActivation(o) == o.rets # <<>> /\ o.rets[1].ret = RetError

NoFailedReturn(o) == \A i \in 1..Len(o.rets) : o.rets[i].ret # RetError

UnprotectEINVALAbsorbed ==
  lastOp[1].op = "Unprotect" /\ lastOp[1].exit = 22 /\ lastOp[1].err = "nil"

\* ------------------------------------------------------ retry after a fault
\* Three runs of one top-level cephContainerDelete: the first without any
\* failure and returning 0 or 1 (kept in first), the second from the same backend with one
\* command failing of its own and returning -1, the third on what the
\* second left, without failure; the third has returned.
RetryDone ==
  /\ first.retry # 0
  /\ calls = first.retry
  /\ stack[1] = <<>>
  /\ first.faults = 0
  /\ first.res \in {RetDeleted, RetZombie}
  /\ faults = 1

\* C29: the retry returns 0 or 1 and leaves the images and snapshots the
\* uninterrupted run left, under the same names, and no zombie without
\* dependents.
C29_RetryConverges ==
  RetryDone =>
    /\ result[1] \in {RetDeleted, RetZombie}
    /\ Shape(Backend) = Shape(first.B)
    /\ OrphanSnaps(Backend) = {}
    /\ OrphanVols(Backend) = {}

\* ------------------------------------------------------ one prefix at most
TwoPrefixes == ZombiePrefix \o ZombiePrefix

\* C30: no image has a type tag that begins with zombie_zombie_ and no
\* snapshot a name that begins with zombie_zombie_.
C30_NoDoubleTombstone ==
  /\ \A v \in Vols : vol[v].ex => ~HasPrefix(vol[v].img, TwoPrefixes)
  /\ \A s \in Snaps : snap[s].ex => ~HasPrefix(snap[s].name, TwoPrefixes)

\* cephContainerDelete has been called on an image that is a zombie
\* already and has zombie snapshots left: it has unmapped the image and
\* returned 1 without a rename, and the image is there under its name.
C30_Witness ==
  LET o == lastOp[1]
  IN /\ o.op = "VolumeUnmap"
     /\ o.err = "nil"
     /\ HasPrefix(o.tgt[2], ZombiePrefix)
     /\ o.rets # <<>>
     /\ o.rets[1].fn = "VD"
     /\ o.rets[1].ret = RetZombie
     /\ FindVol(Backend, o.tgt[1], o.tgt[2]) # 0

\* cephContainerSnapshotDelete has been called on a zombie snapshot that
\* has a clone in use: it has returned 1 without a rename.
ZombieSnapshotKept ==
  LET o == lastOp[1]
  IN /\ o.op = "ListClones"
     /\ HasPrefix(o.tgt[3], ZombiePrefix)
     /\ o.rets # <<>>
     /\ o.rets[1].fn = "SD"
     /\ o.rets[1].ret = RetZombie
     /\ FindSnap(Backend, o.tgt[1], o.tgt[2], o.tgt[3]) # 0

============================================================================
